---- MODULE Spec2Model ----
(***************************************************************************)
(* A model of cppup, the C++ project generator: project-name validation,   *)
(* non-interactive configuration construction (src/src/project/config.rs), *)
(* the template renderer (src/src/templates.rs) and the project builder    *)
(* (src/src/project/builder.rs), over an explicit filesystem.              *)
(***************************************************************************)
EXTENDS Integers, Sequences, FiniteSets, TLC

VARIABLES
    name_arg,       \* the &str handed to validate_project_name
    name_result,    \* what validate_project_name returned for name_arg
    cli,            \* the parsed command line (struct Cli)
    fs,             \* the filesystem: path -> entry
    pc,             \* position of the run
    config,         \* Option<ProjectConfig>: <<>> or <<record>>
    template_data,  \* ProjectBuilder.template_data: <<>> or <<record>>
    result,         \* the Result of the run: <<>> while running
    log,            \* the filesystem and process operations of the run, in order
    stdout,         \* the lines printed by print_success_message
    faults,         \* whether the environment may fail an I/O operation
    host,           \* the tools on PATH and what `g++ --version` does
    generated,      \* history: the project paths whose build has succeeded
    helper          \* the parameters and the output of a call of the contains helper

vars == <<name_arg, name_result, cli, fs, pc, config, template_data, result,
          log, stdout, faults, host, generated, helper>>

(***************************************************************************)
(* Characters.  A &str is a sequence of chars; a char is modelled by a     *)
(* token.  "e_acute" is U+00E9 (alphabetic, two UTF-8 bytes), "arabic3" is *)
(* U+0663 ARABIC-INDIC DIGIT THREE (numeric, two UTF-8 bytes).             *)
(***************************************************************************)
AsciiLetters == {"a", "b", "d", "e", "i", "l", "m", "o", "y"}
AsciiDigits == {"1", "2", "3", "7"}
AsciiOther == {"-", "_", "!", " ", "."}
TwoByteChars == {"e_acute", "arabic3"}

\* char::len_utf8
len_utf8(c) == IF c \in TwoByteChars THEN 2 ELSE 1

\* char::is_numeric (Unicode Nd, Nl, No)
is_numeric(c) == c \in AsciiDigits \cup {"arabic3"}

\* char::is_alphanumeric (Unicode Alphabetic or numeric)
is_alphanumeric(c) == c \in AsciiLetters \cup {"e_acute"} \/ is_numeric(c)

\* str::len: the length of the string in BYTES
RECURSIVE str_len(_)
str_len(s) == IF s = <<>> THEN 0 ELSE len_utf8(Head(s)) + str_len(Tail(s))

\* the name length limit of validate_project_name
MaxNameLen == 100

ErrEmpty == "Project name cannot be empty"
ErrTooLong == "Project name is too long"
ErrStartsWithNumber == "Project name cannot start with a number"
ErrIllegalChar == "Project name can only contain alphanumeric characters, '-' and '_'"

\* validate_project_name: "Ok" or the message of the error returned
validate_project_name(name) ==
    IF name = <<>> THEN ErrEmpty
    ELSE IF str_len(name) > MaxNameLen THEN ErrTooLong
    ELSE IF is_numeric(name[1]) THEN ErrStartsWithNumber
    ELSE IF ~(\A i \in 1..Len(name) :
                is_alphanumeric(name[i]) \/ name[i] = "-" \/ name[i] = "_")
         THEN ErrIllegalChar
    ELSE "Ok"

(***************************************************************************)
(* Option<T>: None is <<>>, Some(x) is <<x>>.                              *)
(***************************************************************************)
None == <<>>
Some(x) == <<x>>

(***************************************************************************)
(* The filesystem.  A path is a sequence of components below the base path *)
(* (cli.path), a component a sequence of string pieces: the component      *)
(* "src" is <<"src">>, the component format!("{}.hpp", name) is the chars  *)
(* of name followed by ".hpp".  fs maps each existing path to its entry.   *)
(***************************************************************************)
BasePath == <<>>

DirEntry(ro) == [kind |-> "dir", readonly |-> ro, content |-> <<>>]
FileEntry(c) == [kind |-> "file", readonly |-> FALSE, content |-> c]

\* Path::exists, Path::is_dir
exists(f, p) == p \in DOMAIN f
is_dir(f, p) == p \in DOMAIN f /\ f[p].kind = "dir"

\* Path::join with one relative component, with two
join(p, a) == Append(p, <<a>>)
join2(p, a, b) == p \o << <<a>>, <<b>> >>
parent(p) == SubSeq(p, 1, Len(p) - 1)
Prefixes(p) == {SubSeq(p, 1, n) : n \in 0..Len(p)}

Put(f, p, e) == [q \in DOMAIN f \cup {p} |-> IF q = p THEN e ELSE f[q]]

\* fs::create_dir_all: fails when a prefix of p is a file, or when a
\* directory has to be created inside a read-only one
create_dir_all_ok(f, p) ==
    /\ \A q \in Prefixes(p) : exists(f, q) => f[q].kind = "dir"
    /\ \A q \in Prefixes(p) :
         (q # <<>> /\ ~exists(f, q) /\ exists(f, parent(q))) => ~f[parent(q)].readonly

create_dir_all(f, p) ==
    [q \in DOMAIN f \cup Prefixes(p) |-> IF exists(f, q) THEN f[q] ELSE DirEntry(FALSE)]

\* fs::write: creates the file or replaces its content; fails when the parent
\* is no directory, when p is a directory, or when a new file would be created
\* in a read-only directory
write_ok(f, p) ==
    /\ p # <<>>
    /\ is_dir(f, parent(p))
    /\ ~is_dir(f, p)
    /\ (~exists(f, p) => ~f[parent(p)].readonly)

write(f, p, c) == Put(f, p, FileEntry(c))

(***************************************************************************)
(* Configuration (src/src/project/config.rs, src/src/project/mod.rs).      *)
(* Enum variants are strings named after the variants.                     *)
(***************************************************************************)
DEFAULT_VERSION == "0.1.0"
DEFAULT_DESCRIPTION == "A C++ project generated with cppup"

\* QualityConfig::new, CodeFormatter::new: tools is the list of selected names
QualityConfig_new(tools) ==
    [enable_clang_tidy |-> "clang-tidy" \in tools,
     enable_cppcheck |-> "cppcheck" \in tools,
     enable_include_what_you_use |-> "include-what-you-use" \in tools]

CodeFormatter_new(tools) ==
    [enable_clang_format |-> "clang-format" \in tools,
     enable_cmake_format |-> "cmake-format" \in tools]

ErrNameRequired == "Project name is required in non-interactive mode"
ErrTypeRequired == "Project type is required in non-interactive mode"
ErrNoDirectory == "Directory doesn't exist"
ErrNotDirectory == "Path is not a directory"
ErrReadOnly == "Directory is read-only"
ErrAlreadyExists == "Project directory already exists"
ErrUnreachable == "panic: internal error: entered unreachable code"

\* validate_project_path: "Ok" or the message of the error returned
validate_project_path(f, path) ==
    IF ~exists(f, path) THEN ErrNoDirectory
    ELSE IF ~is_dir(f, path) THEN ErrNotDirectory
    ELSE IF f[path].readonly THEN ErrReadOnly
    ELSE "Ok"

\* the default author: $USER, else $USERNAME, else "Unknown"
default_author(env) ==
    IF env.USER # None THEN env.USER[1]
    ELSE IF env.USERNAME # None THEN env.USERNAME[1]
    ELSE "Unknown"

\* a construction that never finds the project directory
target_exists_never(c, f) == FALSE

\* let path = cli.path.join(&name); path.exists()
target_exists(c, f) == exists(f, Append(c.path, c.name[1]))

ConfigErr(msg) == [ok |-> FALSE, err |-> msg, config |-> None]

\* the Result of create_config_from_cli: ok, and the error message or the config
create_config_result(c, f, env) ==
    IF c.name = None THEN ConfigErr(ErrNameRequired)
    ELSE LET name == c.name[1] IN
    IF validate_project_name(name) # "Ok"
    THEN ConfigErr(validate_project_name(name))
    ELSE IF validate_project_path(f, c.path) # "Ok"
    THEN ConfigErr(validate_project_path(f, c.path))
    ELSE IF c.project_type \notin {Some("executable"), Some("library")}
    THEN ConfigErr(ErrTypeRequired)
    ELSE IF target_exists(c, f)
    THEN ConfigErr(ErrAlreadyExists)
    ELSE IF c.license \notin {"MIT", "Apache-2.0", "GPL-3.0", "BSD-3-Clause"}
    THEN ConfigErr(ErrUnreachable)
    ELSE IF c.test_framework \notin {"doctest", "gtest", "catch2", "boosttest", "none"}
    THEN ConfigErr(ErrUnreachable)
    ELSE
    [ok |-> TRUE, err |-> "",
     config |-> Some(
       [name |-> name,
        description |-> IF c.description = None THEN DEFAULT_DESCRIPTION
                        ELSE c.description[1],
        project_type |-> IF c.project_type = Some("executable")
                         THEN "Executable" ELSE "Library",
        build_system |-> CASE c.build_system = "cmake" -> "CMake"
                           [] c.build_system = "make" -> "Make"
                           [] OTHER -> "CMake",
        cpp_standard |-> CASE c.cpp_standard = "11" -> "Cpp11"
                           [] c.cpp_standard = "14" -> "Cpp14"
                           [] c.cpp_standard = "17" -> "Cpp17"
                           [] c.cpp_standard = "20" -> "Cpp20"
                           [] c.cpp_standard = "23" -> "Cpp23"
                           [] OTHER -> "Cpp17",
        test_framework |-> CASE c.test_framework = "doctest" -> "Doctest"
                             [] c.test_framework = "gtest" -> "GTest"
                             [] c.test_framework = "catch2" -> "Catch2"
                             [] c.test_framework = "boosttest" -> "BoostTest"
                             [] OTHER -> "None",
        package_manager |-> CASE c.package_manager = "conan" -> "Conan"
                              [] c.package_manager = "vcpkg" -> "Vcpkg"
                              [] OTHER -> "None",
        license |-> CASE c.license = "MIT" -> "MIT"
                      [] c.license = "Apache-2.0" -> "Apache2"
                      [] c.license = "GPL-3.0" -> "GPL3"
                      [] OTHER -> "BSD3",
        use_git |-> c.git,
        path |-> Append(c.path, name),
        author |-> IF c.author = None THEN default_author(env) ELSE c.author[1],
        version |-> DEFAULT_VERSION,
        quality_config |-> QualityConfig_new(c.quality_tools),
        code_formatter |-> CodeFormatter_new(c.code_formatter)])]

\* a construction that makes the project directory as soon as it has the name
create_config_from_cli_mkdir_first(c, f, env) ==
    [result |-> create_config_result(c, f, env),
     fs |-> IF c.name = None THEN f ELSE create_dir_all(f, Append(c.path, c.name[1]))]

\* create_config_from_cli: its Result and the filesystem it leaves; the
\* function only queries the filesystem (exists, is_dir, metadata)
create_config_from_cli(c, f, env) ==
    [result |-> create_config_result(c, f, env), fs |-> f]

(***************************************************************************)
(* Display implementations (src/src/project/mod.rs, config.rs).  A joined  *)
(* string is the sequence of its pieces, separators included.              *)
(***************************************************************************)
CppStandard_to_string(x) ==
    CASE x = "Cpp11" -> "11" [] x = "Cpp14" -> "14" [] x = "Cpp17" -> "17"
      [] x = "Cpp20" -> "20" [] x = "Cpp23" -> "23"

BuildSystem_to_string(x) == CASE x = "CMake" -> "cmake" [] x = "Make" -> "make"

\* a Display that writes the variant's own name
License_to_string_variant(x) == x

License_to_string(x) ==
    CASE x = "MIT" -> "MIT" [] x = "Apache2" -> "Apache-2.0"
      [] x = "GPL3" -> "GPL-3.0" [] x = "BSD3" -> "BSD-3-Clause"

PackageManager_to_string(x) ==
    CASE x = "Conan" -> "conan" [] x = "Vcpkg" -> "vcpkg" [] x = "None" -> "none"

TestFramework_to_string(x) ==
    CASE x = "Doctest" -> "doctest" [] x = "GTest" -> "gtest"
      [] x = "Catch2" -> "catch2" [] x = "BoostTest" -> "boost"
      [] x = "None" -> "none"

\* [&str]::join(", ")
RECURSIVE join_comma(_)
join_comma(tools) ==
    IF Len(tools) <= 1 THEN tools
    ELSE <<Head(tools), ",", " ">> \o join_comma(Tail(tools))

QualityConfig_to_string(q) ==
    join_comma((IF q.enable_clang_tidy THEN <<"clang-tidy">> ELSE <<>>)
               \o (IF q.enable_cppcheck THEN <<"cppcheck">> ELSE <<>>)
               \o (IF q.enable_include_what_you_use
                   THEN <<"include-what-you-use">> ELSE <<>>))

CodeFormatter_to_string(c) ==
    join_comma((IF c.enable_clang_format THEN <<"clang-format">> ELSE <<>>)
               \o (IF c.enable_cmake_format THEN <<"cmake-format">> ELSE <<>>))

(***************************************************************************)
(* The contains helper (src/src/templates.rs).  The strings it compares    *)
(* are sequences of chars; a tool name of a Display string is spelt out    *)
(* char by char by Spell.                                                  *)
(***************************************************************************)
Spell(piece) ==
    CASE piece = "clang-tidy" -> <<"c", "l", "a", "n", "g", "-", "t", "i", "d", "y">>
      [] piece = "cppcheck" -> <<"c", "p", "p", "c", "h", "e", "c", "k">>
      [] piece = "include-what-you-use" ->
           <<"i", "n", "c", "l", "u", "d", "e", "-", "w", "h", "a", "t", "-",
             "y", "o", "u", "-", "u", "s", "e">>
      [] piece = "clang-format" ->
           <<"c", "l", "a", "n", "g", "-", "f", "o", "r", "m", "a", "t">>
      [] piece = "cmake-format" ->
           <<"c", "m", "a", "k", "e", "-", "f", "o", "r", "m", "a", "t">>
      [] OTHER -> <<piece>>

\* the chars of a string given by its pieces
RECURSIVE SpellAll(_)
SpellAll(pieces) ==
    IF pieces = <<>> THEN <<>> ELSE Spell(Head(pieces)) \o SpellAll(Tail(pieces))

\* a parameter of a helper call: none, a JSON string, or a JSON value of
\* another type
NoParam == [kind |-> "missing"]
StrParam(s) == [kind |-> "string", str |-> s]
NumParam == [kind |-> "number"]

\* no helper call is in progress
NoHelper == [params |-> <<>>, out |-> None]

\* h.param(i).and_then(|p| p.value().as_str()).unwrap_or("")
param_str(p) == IF p.kind = "string" THEN p.str ELSE <<>>

\* char::is_whitespace
is_whitespace(c) == c \in {" ", "tab", "newline"}

\* str::trim
RECURSIVE trim_start(_)
trim_start(s) ==
    IF s # <<>> /\ is_whitespace(Head(s)) THEN trim_start(Tail(s)) ELSE s

RECURSIVE trim_end(_)
trim_end(s) ==
    IF s # <<>> /\ is_whitespace(s[Len(s)])
    THEN trim_end(SubSeq(s, 1, Len(s) - 1)) ELSE s

trim(s) == trim_end(trim_start(s))

\* str::split(','): the items between the commas, empty items included; the
\* empty string has one empty item
RECURSIVE split_comma_from(_, _)
split_comma_from(s, item) ==
    IF s = <<>> THEN <<item>>
    ELSE IF Head(s) = "," THEN <<item>> \o split_comma_from(Tail(s), <<>>)
    ELSE split_comma_from(Tail(s), Append(item, Head(s)))

split_comma(s) == split_comma_from(s, <<>>)

\* contains_helper: what the helper writes to its output
contains_helper(p0, p1) ==
    LET list == param_str(p0)
        value == param_str(p1)
        items == split_comma(list)
        contains == \E k \in 1..Len(items) : trim(items[k]) = value
    IN  IF contains THEN "true" ELSE ""

\* a replacement that stops after the first '-'
replace_dash_first(name) ==
    [i \in 1..Len(name) |->
        IF name[i] = "-" /\ \A j \in 1..(i - 1) : name[j] # "-" THEN "_" ELSE name[i]]

\* str::replace('-', "_")
replace_dash(name) == [i \in 1..Len(name) |-> IF name[i] = "-" THEN "_" ELSE name[i]]

\* a projection that stamps the version with the year
create_template_data_dated_version(c, year) ==
    [name |-> c.name,
     cpp_standard |-> CppStandard_to_string(c.cpp_standard),
     is_library |-> c.project_type = "Library",
     namespace |-> replace_dash(c.name),
     build_system |-> BuildSystem_to_string(c.build_system),
     description |-> c.description,
     author |-> c.author,
     version |-> <<c.version, year>>,
     year |-> year,
     enable_tests |-> c.test_framework # "None",
     test_framework |-> TestFramework_to_string(c.test_framework),
     package_manager |-> PackageManager_to_string(c.package_manager),
     quality_config |-> QualityConfig_to_string(c.quality_config),
     code_formatter |-> CodeFormatter_to_string(c.code_formatter)]

\* create_template_data; year is Local::now().year().to_string()
create_template_data(cfg, year) ==
    [name |-> cfg.name,
     cpp_standard |-> CppStandard_to_string(cfg.cpp_standard),
     is_library |-> cfg.project_type = "Library",
     namespace |-> replace_dash(cfg.name),
     build_system |-> BuildSystem_to_string(cfg.build_system),
     description |-> cfg.description,
     author |-> cfg.author,
     version |-> cfg.version,
     year |-> year,
     enable_tests |-> cfg.test_framework # "None",
     test_framework |-> TestFramework_to_string(cfg.test_framework),
     package_manager |-> PackageManager_to_string(cfg.package_manager),
     quality_config |-> QualityConfig_to_string(cfg.quality_config),
     code_formatter |-> CodeFormatter_to_string(cfg.code_formatter)]

(***************************************************************************)
(* The template renderer (src/src/templates.rs).                           *)
(***************************************************************************)
\* the names registered by create_template_registry
TemplateRegistry ==
    {"main.cpp", "CMakeLists.txt", "options.cmake", "compilation-flags.cmake",
     "source.cmake", "Makefile", "header.hpp", "library.cpp", "example.cpp",
     "example.cmake", "gitignore", "README.md", "conanfile.txt", "vcpkg.json",
     "MIT", "GPL-3.0", "BSD-3-Clause", "Apache-2.0", "clang-format",
     "cmake-format", "clang-tidy", "cppcheck-suppressions.xml", "tests.cmake",
     "boost_test_main.cpp", "catch2_main.cpp", "gtest_main.cpp",
     "doctest_main.cpp"}

\* Handlebars::render on the registry: the rendered text, or a RenderError
\* when no template is registered under the name
registry_render(t, data) ==
    IF t \in TemplateRegistry
    THEN [ok |-> TRUE, out |-> <<t, data>>]
    ELSE [ok |-> FALSE, out |-> <<>>]

\* TemplateRenderer::render_to_string
render_to_string(t, data) == registry_render(t, data)

\* An operation of the builder on its environment.  note is the context of a
\* failed directory creation, or the exit status of a spawned process.
Op(kind, p, t, n) == [op |-> kind, path |-> p, template |-> t, note |-> n]
NoOp == Op("none", <<>>, "", "")
Mkdir(p, context) == Op("create_dir_all", p, "", context)
\* TemplateRenderer::render(template_name, &self.template_data, output_path)
Render(t, p) == Op("render", p, t, "")

ErrCreateProjectDir == "Failed to create project directory"
ErrCreateDir == "Failed to create directory"
ErrRender == "Failed to render template"
ErrWrite == "Failed to write file"
ErrGit == "Failed to initialize git repository"

\* a renderer that writes an empty file when the name is not registered
op_ok_any_template(f, o) ==
    CASE o.op = "create_dir_all" -> create_dir_all_ok(f, o.path)
      [] o.op = "git_init" -> o.note # "spawn failed" /\ is_dir(f, o.path)
      [] o.op = "render" -> write_ok(f, o.path)

\* a builder that takes a non-zero exit status of git for a failure
op_ok_git_status_checked(f, o) ==
    CASE o.op = "create_dir_all" -> create_dir_all_ok(f, o.path)
      [] o.op = "git_init" -> o.note = "exit 0" /\ is_dir(f, o.path)
      [] o.op = "render" -> o.template \in TemplateRegistry /\ write_ok(f, o.path)

\* whether the operation succeeds on filesystem f when no I/O error strikes:
\* render fails on an unregistered name before it opens the file
op_ok(f, o) ==
    CASE o.op = "create_dir_all" -> create_dir_all_ok(f, o.path)
      [] o.op = "git_init" -> o.note # "spawn failed" /\ is_dir(f, o.path)
      [] o.op = "render" -> o.template \in TemplateRegistry /\ write_ok(f, o.path)

\* a renderer that renders the README against data with a year of its own
op_apply_readme_own_year(f, o, data) ==
    CASE o.op = "create_dir_all" -> create_dir_all(f, o.path)
      [] o.op = "git_init" ->
           IF o.note = "exit 0" /\ create_dir_all_ok(f, join(o.path, ".git"))
           THEN create_dir_all(f, join(o.path, ".git")) ELSE f
      [] o.op = "render" ->
           write(f, o.path,
                 <<o.template,
                   IF o.template = "README.md" THEN [data EXCEPT !.year = "1970"]
                   ELSE data>>)

\* the filesystem the operation leaves when it succeeds; a rendered file
\* holds the template's name and the data it was rendered against
op_apply(f, o, data) ==
    CASE o.op = "create_dir_all" -> create_dir_all(f, o.path)
      [] o.op = "git_init" ->
           IF o.note = "exit 0" /\ create_dir_all_ok(f, join(o.path, ".git"))
           THEN create_dir_all(f, join(o.path, ".git")) ELSE f
      [] o.op = "render" -> write(f, o.path, <<o.template, data>>)

\* the message of the error the operation returns when it fails
op_error(o) ==
    CASE o.op = "create_dir_all" -> o.note
      [] o.op = "git_init" -> ErrGit
      [] o.op = "render" ->
           IF o.template \notin TemplateRegistry THEN ErrRender ELSE ErrWrite

(***************************************************************************)
(* The builder (src/src/project/builder.rs).  Each function is the         *)
(* sequence of operations it performs, in order; every operation is        *)
(* followed by `?`, so the function stops at the first that fails.         *)
(***************************************************************************)
\* a builder that makes the tests directory whatever the test framework
create_directory_structure_always_tests(cfg) ==
    LET dirs == <<"src", "cmake", "include",
                  IF cfg.project_type = "Library" THEN "examples" ELSE "assets",
                  "tests">>
    IN <<Mkdir(cfg.path, ErrCreateProjectDir)>>
       \o [i \in 1..Len(dirs) |-> Mkdir(join(cfg.path, dirs[i]), ErrCreateDir)]

\* a builder that does not make the include directory
create_directory_structure_no_include(cfg) ==
    LET dirs == <<"src", "cmake",
                  IF cfg.project_type = "Library" THEN "examples" ELSE "assets">>
                \o (IF cfg.test_framework # "None" THEN <<"tests">> ELSE <<>>)
    IN <<Mkdir(cfg.path, ErrCreateProjectDir)>>
       \o [i \in 1..Len(dirs) |-> Mkdir(join(cfg.path, dirs[i]), ErrCreateDir)]

create_directory_structure(cfg) ==
    LET dirs == <<"src", "cmake", "include",
                  IF cfg.project_type = "Library" THEN "examples" ELSE "assets">>
                \o (IF cfg.test_framework # "None" THEN <<"tests">> ELSE <<>>)
    IN <<Mkdir(cfg.path, ErrCreateProjectDir)>>
       \o [i \in 1..Len(dirs) |-> Mkdir(join(cfg.path, dirs[i]), ErrCreateDir)]

\* a builder whose CMake arm writes a Makefile too
generate_cmake_files_with_makefile(cfg) ==
    <<Render("CMakeLists.txt", join(cfg.path, "CMakeLists.txt")),
      Render("options.cmake", join2(cfg.path, "cmake", "options.cmake")),
      Render("compilation-flags.cmake",
             join2(cfg.path, "cmake", "compilation-flags.cmake")),
      Render("source.cmake", join2(cfg.path, "src", "CMakeLists.txt")),
      Render("Makefile", join(cfg.path, "Makefile"))>>
    \o (IF cfg.project_type = "Library"
        THEN <<Render("example.cmake", join2(cfg.path, "examples", "CMakeLists.txt"))>>
        ELSE <<>>)

generate_cmake_files(cfg) ==
    <<Render("CMakeLists.txt", join(cfg.path, "CMakeLists.txt")),
      Render("options.cmake", join2(cfg.path, "cmake", "options.cmake")),
      Render("compilation-flags.cmake",
             join2(cfg.path, "cmake", "compilation-flags.cmake")),
      Render("source.cmake", join2(cfg.path, "src", "CMakeLists.txt"))>>
    \o (IF cfg.project_type = "Library"
        THEN <<Render("example.cmake", join2(cfg.path, "examples", "CMakeLists.txt"))>>
        ELSE <<>>)

generate_makefile(cfg) == <<Render("Makefile", join(cfg.path, "Makefile"))>>

\* format!("include/{}.hpp", self.config.name)
header_path(cfg) == cfg.path \o << <<"include">>, cfg.name \o <<".hpp">> >>

\* a builder that writes src/main.cpp for libraries too
generate_source_files_main_always(cfg) ==
    <<Render("main.cpp", join2(cfg.path, "src", "main.cpp"))>>
    \o (IF cfg.project_type = "Executable" THEN <<>>
        ELSE <<Render("header.hpp", header_path(cfg)),
               Render("library.cpp", join2(cfg.path, "src", "lib.cpp")),
               Render("example.cpp", join2(cfg.path, "examples", "example.cpp"))>>)

generate_source_files(cfg) ==
    IF cfg.project_type = "Executable"
    THEN <<Render("main.cpp", join2(cfg.path, "src", "main.cpp"))>>
    ELSE <<Render("header.hpp", header_path(cfg)),
           Render("library.cpp", join2(cfg.path, "src", "lib.cpp")),
           Render("example.cpp", join2(cfg.path, "examples", "example.cpp"))>>

\* a builder that renders tests/CMakeLists.txt whatever the build system
generate_test_files_any_build_system(cfg) ==
    IF cfg.test_framework # "None"
    THEN <<Render("tests.cmake", join2(cfg.path, "tests", "CMakeLists.txt")),
           Render(CASE cfg.test_framework = "Doctest" -> "doctest_main.cpp"
                    [] cfg.test_framework = "GTest" -> "gtest_main.cpp"
                    [] cfg.test_framework = "BoostTest" -> "boost_test_main.cpp"
                    [] cfg.test_framework = "Catch2" -> "catch2_main.cpp",
                  join2(cfg.path, "tests", "main_test.cpp"))>>
    ELSE <<>>

\* a builder whose Catch2 arm renders the GTest stub
generate_test_files_catch2_as_gtest(cfg) ==
    IF cfg.test_framework # "None"
    THEN (IF cfg.build_system = "CMake"
          THEN <<Render("tests.cmake", join2(cfg.path, "tests", "CMakeLists.txt"))>>
          ELSE <<>>)
         \o <<Render(CASE cfg.test_framework = "Doctest" -> "doctest_main.cpp"
                       [] cfg.test_framework = "GTest" -> "gtest_main.cpp"
                       [] cfg.test_framework = "BoostTest" -> "boost_test_main.cpp"
                       [] cfg.test_framework = "Catch2" -> "gtest_main.cpp",
                     join2(cfg.path, "tests", "main_test.cpp"))>>
    ELSE <<>>

generate_test_files(cfg) ==
    IF cfg.test_framework # "None"
    THEN (IF cfg.build_system = "CMake"
          THEN <<Render("tests.cmake", join2(cfg.path, "tests", "CMakeLists.txt"))>>
          ELSE <<>>)
         \o (CASE cfg.test_framework = "Doctest" ->
                    <<Render("doctest_main.cpp", join2(cfg.path, "tests", "main_test.cpp"))>>
               [] cfg.test_framework = "GTest" ->
                    <<Render("gtest_main.cpp", join2(cfg.path, "tests", "main_test.cpp"))>>
               [] cfg.test_framework = "BoostTest" ->
                    <<Render("boost_test_main.cpp", join2(cfg.path, "tests", "main_test.cpp"))>>
               [] cfg.test_framework = "Catch2" ->
                    <<Render("catch2_main.cpp", join2(cfg.path, "tests", "main_test.cpp"))>>
               [] OTHER -> <<>>)
    ELSE <<>>

generate_readme(cfg) == <<Render("README.md", join(cfg.path, "README.md"))>>

generate_license(cfg) ==
    <<Render(License_to_string(cfg.license), join(cfg.path, "LICENSE"))>>

\* a builder that writes the cppcheck suppressions only next to .clang-tidy
generate_quality_files_cppcheck_needs_tidy(cfg) ==
    IF cfg.quality_config.enable_clang_tidy
    THEN <<Render("clang-tidy", join(cfg.path, ".clang-tidy"))>>
         \o (IF cfg.quality_config.enable_cppcheck
             THEN <<Render("cppcheck-suppressions.xml",
                           join(cfg.path, "cppcheck-suppressions.xml"))>>
             ELSE <<>>)
    ELSE <<>>

generate_quality_files(cfg) ==
    (IF cfg.quality_config.enable_clang_tidy
     THEN <<Render("clang-tidy", join(cfg.path, ".clang-tidy"))>> ELSE <<>>)
    \o (IF cfg.quality_config.enable_cppcheck
        THEN <<Render("cppcheck-suppressions.xml",
                      join(cfg.path, "cppcheck-suppressions.xml"))>>
        ELSE <<>>)

generate_code_formatter_files(cfg) ==
    (IF cfg.code_formatter.enable_clang_format
     THEN <<Render("clang-format", join(cfg.path, ".clang-format"))>> ELSE <<>>)
    \o (IF cfg.code_formatter.enable_cmake_format
        THEN <<Render("cmake-format", join(cfg.path, "cmake-format.yaml"))>>
        ELSE <<>>)

\* a builder that writes the Conan recipe next to the Vcpkg manifest
setup_package_manager_vcpkg_with_conan(cfg) ==
    CASE cfg.package_manager = "Conan" ->
           <<Render("conanfile.txt", join(cfg.path, "conanfile.txt"))>>
      [] cfg.package_manager = "Vcpkg" ->
           <<Render("conanfile.txt", join(cfg.path, "conanfile.txt")),
             Render("vcpkg.json", join(cfg.path, "vcpkg.json"))>>
      [] OTHER -> <<>>

setup_package_manager(cfg) ==
    CASE cfg.package_manager = "Conan" ->
           <<Render("conanfile.txt", join(cfg.path, "conanfile.txt"))>>
      [] cfg.package_manager = "Vcpkg" ->
           <<Render("vcpkg.json", join(cfg.path, "vcpkg.json"))>>
      [] OTHER -> <<>>

\* initialize_git: `git init` run in the project directory, then the
\* .gitignore render; status is how the spawned process ended, and only a
\* process that could not be spawned is an error
GitInit(p, status) == Op("git_init", p, "", status)

\* a builder that renders .gitignore before it runs `git init`
initialize_git_gitignore_first(cfg, status) ==
    IF cfg.use_git
    THEN <<Render("gitignore", join(cfg.path, ".gitignore")),
           GitInit(cfg.path, status)>>
    ELSE <<>>

initialize_git(cfg, status) ==
    IF cfg.use_git
    THEN <<GitInit(cfg.path, status),
           Render("gitignore", join(cfg.path, ".gitignore"))>>
    ELSE <<>>

\* the lines print_success_message prints
print_success_message(cfg) ==
    <<"Project created successfully!", "Next steps:", "1. cd <path>">>
    \o (CASE cfg.package_manager = "Conan" ->
               <<"2. mkdir build && cd build",
                 "3. conan install .. --output-folder=. --build=missing",
                 "4. cmake .. -DCMAKE_TOOLCHAIN_FILE=./conan_toolchain.cmake",
                 "5. cmake --build .">>
          [] cfg.package_manager = "Vcpkg" ->
               <<"2. mkdir build && cd build",
                 "3. cmake .. -DCMAKE_TOOLCHAIN_FILE=${VCPKG_ROOT}/scripts/buildsystems/vcpkg.cmake",
                 "4. cmake --build .">>
          [] OTHER ->
               IF cfg.build_system = "CMake"
               THEN <<"2. mkdir build && cd build", "3. cmake ..", "4. cmake --build .">>
               ELSE <<"2. make">>)

(***************************************************************************)
(* The validator (src/src/project/validator.rs).  The host is the set of   *)
(* tools `which` resolves on PATH and what spawning `g++ --version` gives: *)
(* whether the process could be spawned and the lines of its stdout, each  *)
(* a sequence of chars.                                                    *)
(***************************************************************************)
\* a checker that does not look for include-what-you-use
required_tools_without_iwyu(c) ==
    (IF c.build_system = "CMake" THEN <<"cmake", "g++">> ELSE <<"make", "g++">>)
    \o (CASE c.package_manager = "Conan" -> <<"conan">>
          [] c.package_manager = "Vcpkg" -> <<"vcpkg">>
          [] OTHER -> <<>>)
    \o (IF c.quality_config.enable_clang_tidy THEN <<"clang-tidy">> ELSE <<>>)
    \o (IF c.quality_config.enable_cppcheck THEN <<"cppcheck">> ELSE <<>>)
    \o (IF c.code_formatter.enable_clang_format THEN <<"clang-format">> ELSE <<>>)
    \o (IF c.code_formatter.enable_cmake_format THEN <<"cmake-format">> ELSE <<>>)

\* the vector tools of check_required_tools, in the order it is filled
required_tools(c) ==
    (IF c.build_system = "CMake" THEN <<"cmake", "g++">> ELSE <<"make", "g++">>)
    \o (CASE c.package_manager = "Conan" -> <<"conan">>
          [] c.package_manager = "Vcpkg" -> <<"vcpkg">>
          [] OTHER -> <<>>)
    \o (IF c.quality_config.enable_clang_tidy THEN <<"clang-tidy">> ELSE <<>>)
    \o (IF c.quality_config.enable_cppcheck THEN <<"cppcheck">> ELSE <<>>)
    \o (IF c.quality_config.enable_include_what_you_use
        THEN <<"include-what-you-use">> ELSE <<>>)
    \o (IF c.code_formatter.enable_clang_format THEN <<"clang-format">> ELSE <<>>)
    \o (IF c.code_formatter.enable_cmake_format THEN <<"cmake-format">> ELSE <<>>)

\* is_tool_installed: which::which(tool).is_ok()
is_tool_installed(h, tool) == tool \in h.path_tools

\* format!("{} is not installed", tool)
ErrNotInstalled(tool) == <<tool, " is not installed">>

\* check_required_tools: "Ok" or the error of the first tool that is missing
check_required_tools(c, h) ==
    LET tools == required_tools(c)
        missing == {i \in 1..Len(tools) : ~is_tool_installed(h, tools[i])}
    IN IF missing = {} THEN "Ok"
       ELSE ErrNotInstalled(tools[CHOOSE i \in missing : \A j \in missing : i <= j])

ErrGxxVersion == <<"Failed to get g++ version">>
UnknownLine == <<"u", "n", "k", "n", "o", "w", "n">>

\* get_compiler_version: the first line of stdout, "unknown" when there is none
get_compiler_version(h) ==
    IF ~h.gxx.spawned THEN [ok |-> FALSE, line |-> <<>>]
    ELSE [ok |-> TRUE,
          line |-> IF h.gxx.stdout = <<>> THEN UnknownLine ELSE h.gxx.stdout[1]]

DecimalDigits == {"0", "1", "2", "3", "4", "5", "6", "7", "8", "9"}
\* the class \d of the regex crate is Unicode Nd, which holds U+0663
regex_digit(c) == c \in DecimalDigits \cup {"arabic3"}

\* the length of the longest run of \d that starts at position i of line
RECURSIVE digit_run(_, _)
digit_run(line, i) ==
    IF i > Len(line) \/ ~regex_digit(line[i]) THEN 0 ELSE 1 + digit_run(line, i + 1)

\* "g++ " is at position s of line
gpp_at(line, s) ==
    s + 3 <= Len(line) /\ SubSeq(line, s, s + 3) = <<"g", "+", "+", " ">>

\* " (\d+\.\d+)" matches at position p of line
version_at(line, p) ==
    LET d1 == digit_run(line, p + 1) IN
    /\ p <= Len(line) /\ line[p] = " "
    /\ d1 >= 1
    /\ p + 1 + d1 <= Len(line) /\ line[p + 1 + d1] = "."
    /\ digit_run(line, p + 2 + d1) >= 1

\* the group 1 of r"g\+\+ .* (\d+\.\d+)" on line: the search is unanchored
\* and .* is greedy, so the group is at the last place where it can match
gcc_version_capture(line) ==
    LET places == {p \in 1..Len(line) :
                     version_at(line, p) /\ \E s \in 1..(p - 4) : gpp_at(line, s)}
    IN IF places = {} THEN None
       ELSE LET p == CHOOSE q \in places : \A r \in places : r <= q
                d1 == digit_run(line, p + 1)
                d2 == digit_run(line, p + 2 + d1)
            IN Some([major |-> SubSeq(line, p + 1, p + d1),
                     minor |-> SubSeq(line, p + 2 + d1, p + 1 + d1 + d2)])

DigitValue(c) ==
    CASE c = "0" -> 0 [] c = "1" -> 1 [] c = "2" -> 2 [] c = "3" -> 3
      [] c = "4" -> 4 [] c = "5" -> 5 [] c = "6" -> 6 [] c = "7" -> 7
      [] c = "8" -> 8 [] c = "9" -> 9

RECURSIVE DecimalValue(_)
DecimalValue(digits) ==
    IF digits = <<>> THEN 0
    ELSE 10 * DecimalValue(SubSeq(digits, 1, Len(digits) - 1))
         + DigitValue(digits[Len(digits)])

RECURSIVE Pow10(_)
Pow10(n) == IF n = 0 THEN 1 ELSE 10 * Pow10(n - 1)

\* str::parse::<f32> of "<major>.<minor>": the digits after the point are a
\* decimal fraction; the value is kept as the exact quotient num / den (the
\* versions of the model have at most four digits, which f32 keeps apart).
\* Digits outside ASCII do not parse.
parse_f32(cap) ==
    IF \E i \in 1..Len(cap.major) : cap.major[i] \notin DecimalDigits THEN None
    ELSE IF \E i \in 1..Len(cap.minor) : cap.minor[i] \notin DecimalDigits THEN None
    ELSE Some([num |-> DecimalValue(cap.major) * Pow10(Len(cap.minor))
                         + DecimalValue(cap.minor),
               den |-> Pow10(Len(cap.minor))])

\* extract_gcc_version: Option<f32>
extract_gcc_version(line) ==
    IF gcc_version_capture(line) = None THEN None
    ELSE parse_f32(gcc_version_capture(line)[1])

\* the table of check_compiler_version, in f32
required_version(std) ==
    CASE std = "Cpp11" -> [num |-> 48, den |-> 10]
      [] std = "Cpp14" -> [num |-> 50, den |-> 10]
      [] std = "Cpp17" -> [num |-> 70, den |-> 10]
      [] std = "Cpp20" -> [num |-> 100, den |-> 10]
      [] std = "Cpp23" -> [num |-> 120, den |-> 10]

\* a < b on f32
f32_lt(a, b) == a.num * b.den < b.num * a.den

\* format!("G++ version {} is too old for C++{}. Version >= {} required.", ..)
ErrTooOld(version, std, required) ==
    <<"G++ version ", version, " is too old for C++", CppStandard_to_string(std),
      ". Version >= ", required, " required.">>

\* a check that refuses a compiler whose version it cannot read
check_compiler_version_strict(c, h) ==
    IF ~get_compiler_version(h).ok THEN ErrGxxVersion
    ELSE LET version == extract_gcc_version(get_compiler_version(h).line)
             required == required_version(c.cpp_standard)
         IN IF version = None \/ f32_lt(version[1], required)
            THEN ErrTooOld(version, c.cpp_standard, required)
            ELSE "Ok"

\* check_compiler_version: "Ok" or the error returned
check_compiler_version(c, h) ==
    IF ~get_compiler_version(h).ok THEN ErrGxxVersion
    ELSE LET version == extract_gcc_version(get_compiler_version(h).line)
             required == required_version(c.cpp_standard)
         IN IF version # None /\ f32_lt(version[1], required)
            THEN ErrTooOld(version[1], c.cpp_standard, required)
            ELSE "Ok"

(***************************************************************************)
(* Running a function of the builder: its operations run in order on the   *)
(* filesystem until one fails.                                             *)
(***************************************************************************)
\* a run that undoes the operations of a function when one of them fails
RECURSIVE exec_ops_rollback(_, _, _, _)
exec_ops_rollback(f, ops, k, data) ==
    IF k = 0 \/ ops = <<>> \/ ~op_ok(f, Head(ops))
    THEN [fs |-> f, n |-> 0]
    ELSE LET r == exec_ops_rollback(op_apply(f, Head(ops), data), Tail(ops), k - 1, data)
         IN [fs |-> IF k < Len(ops) THEN f ELSE r.fs, n |-> r.n + 1]

\* the filesystem after the first k operations of ops, and how many of them ran
RECURSIVE exec_ops(_, _, _, _)
exec_ops(f, ops, k, data) ==
    IF k = 0 \/ ops = <<>> \/ ~op_ok(f, Head(ops))
    THEN [fs |-> f, n |-> 0]
    ELSE LET r == exec_ops(op_apply(f, Head(ops), data), Tail(ops), k - 1, data)
         IN [fs |-> r.fs, n |-> r.n + 1]

Ok == Some([ok |-> TRUE, err |-> "", at |-> NoOp])
Err(msg, o) == Some([ok |-> FALSE, err |-> msg, at |-> o])

cfg == config[1]

\* One function of build, called with filesystem f0 after the operations pre:
\* k operations succeed; the next one fails (it cannot succeed on this
\* filesystem, or an I/O error strikes) and its error is returned through every
\* `?` up to build's caller, or there is none left and build goes on at next.
RunStep(f0, pre, ops, next) ==
    \E k \in 0..Len(ops) :
      LET r == exec_ops(f0, ops, k, template_data[1]) IN
      /\ r.n = k
      /\ k < Len(ops) => (faults \/ ~op_ok(r.fs, ops[k + 1]))
      /\ fs' = r.fs
      /\ log' = log \o pre \o SubSeq(ops, 1, k)
      /\ IF k = Len(ops)
         THEN pc' = next /\ result' = result
         ELSE pc' = "build_failed" /\ result' = Err(op_error(ops[k + 1]), ops[k + 1])
      /\ UNCHANGED <<name_arg, name_result, cli, config, template_data, stdout,
                     faults, host, generated, helper>>

(***************************************************************************)
(* The steps of a run.                                                     *)
(***************************************************************************)
\* the years the clock may show when the builder is constructed
ClockYears == {"2026"}
\* the environments a run may start in
EnvInputs == {[USER |-> Some("alice"), USERNAME |-> None]}
\* how `git init` may end
GitStatuses == {"exit 0", "exit 1", "spawn failed"}

\* ProjectConfig::new(Some(&cli)) with cli.non_interactive
CreateConfigFromCli ==
    /\ pc = "start"
    /\ \E env \in EnvInputs :
         LET r == create_config_from_cli(cli[1], fs, env) IN
         /\ fs' = r.fs
         /\ IF r.result.ok
            THEN /\ pc' = "configured"
                 /\ config' = r.result.config
                 /\ result' = result
            ELSE /\ pc' = "config_failed"
                 /\ config' = None
                 /\ result' = Err(r.result.err, NoOp)
    /\ UNCHANGED <<name_arg, name_result, cli, template_data, log, stdout,
                   faults, host, generated, helper>>

\* ProjectBuilder::new
NewBuilder ==
    /\ pc = "configured"
    /\ \E year \in ClockYears :
         template_data' = Some(create_template_data(cfg, year))
    /\ pc' = "create_directory_structure"
    /\ UNCHANGED <<name_arg, name_result, cli, fs, config, result, log, stdout,
                   faults, host, generated, helper>>

CreateDirectoryStructure ==
    /\ pc = "create_directory_structure"
    /\ RunStep(fs, <<>>, create_directory_structure(cfg), "render_templates")

\* render_templates: match self.config.build_system
GenerateCmakeFiles ==
    /\ pc = "render_templates"
    /\ cfg.build_system = "CMake"
    /\ RunStep(fs, <<>>, generate_cmake_files(cfg), "generate_source_files")

GenerateMakefile ==
    /\ pc = "render_templates"
    /\ cfg.build_system = "Make"
    /\ RunStep(fs, <<>>, generate_makefile(cfg), "generate_source_files")

GenerateSourceFiles ==
    /\ pc = "generate_source_files"
    /\ RunStep(fs, <<>>, generate_source_files(cfg), "generate_test_files")

GenerateTestFiles ==
    /\ pc = "generate_test_files"
    /\ RunStep(fs, <<>>, generate_test_files(cfg), "generate_readme")

GenerateReadme ==
    /\ pc = "generate_readme"
    /\ RunStep(fs, <<>>, generate_readme(cfg), "generate_quality_files")

GenerateQualityFiles ==
    /\ pc = "generate_quality_files"
    /\ RunStep(fs, <<>>, generate_quality_files(cfg), "generate_code_formatter_files")

GenerateCodeFormatterFiles ==
    /\ pc = "generate_code_formatter_files"
    /\ RunStep(fs, <<>>, generate_code_formatter_files(cfg), "generate_license")

\* a build that writes the package-manager manifest before the license
GenerateLicense_manifest_first ==
    /\ pc = "generate_license"
    /\ RunStep(fs, <<>>, setup_package_manager(cfg) \o generate_license(cfg),
               "setup_package_manager")

GenerateLicense ==
    /\ pc = "generate_license"
    /\ RunStep(fs, <<>>, generate_license(cfg), "setup_package_manager")

SetupPackageManager ==
    /\ pc = "setup_package_manager"
    /\ RunStep(fs, <<>>, setup_package_manager(cfg), "initialize_git")

\* a process that ends other than with exit status 0 is a fault of the environment
InitializeGit ==
    /\ pc = "initialize_git"
    /\ \E status \in GitStatuses :
         /\ status # "exit 0" => faults
         /\ RunStep(fs, <<>>, initialize_git(cfg, status), "print_success_message")
         \* `.output()` is an error only when the process cannot be spawned
         /\ (pc' = "build_failed" /\ result'[1].at.op = "git_init")
              => ~op_ok(fs, GitInit(cfg.path, status))

PrintSuccessMessage ==
    /\ pc = "print_success_message"
    /\ stdout' = print_success_message(cfg)
    /\ pc' = "done"
    /\ result' = Ok
    /\ generated' = generated \cup {cfg.path}
    /\ UNCHANGED <<name_arg, name_result, cli, fs, config, template_data, log, faults,
                   host, helper>>

Build ==
    \/ NewBuilder
    \/ CreateDirectoryStructure
    \/ GenerateCmakeFiles
    \/ GenerateMakefile
    \/ GenerateSourceFiles
    \/ GenerateTestFiles
    \/ GenerateReadme
    \/ GenerateQualityFiles
    \/ GenerateCodeFormatterFiles
    \/ GenerateLicense
    \/ SetupPackageManager
    \/ InitializeGit
    \/ PrintSuccessMessage

\* the user runs the program again after a successful run
Rerun(inputs) ==
    /\ pc = "done"
    /\ cli # None
    /\ \E c \in inputs : cli' = Some(c)
    /\ pc' = "start"
    /\ config' = None
    /\ template_data' = None
    /\ result' = None
    /\ log' = <<>>
    /\ stdout' = <<>>
    /\ UNCHANGED <<name_arg, name_result, fs, faults, host, generated, helper>>

\* validate_project_name applied to name_arg
ValidateName ==
    /\ pc = "validate_name"
    /\ name_result' = validate_project_name(name_arg)
    /\ pc' = "name_validated"
    /\ UNCHANGED <<name_arg, cli, fs, config, template_data, result, log, stdout, faults,
                   host, generated, helper>>

\* check_prerequisites: self.check_required_tools()?
CheckRequiredTools ==
    /\ pc = "check_required_tools"
    /\ IF check_required_tools(cfg, host) = "Ok"
       THEN pc' = "check_compiler_version" /\ result' = result
       ELSE /\ pc' = "prerequisites_failed"
            /\ result' = Err(check_required_tools(cfg, host), NoOp)
    /\ UNCHANGED <<name_arg, name_result, cli, fs, config, template_data, log, stdout,
                   faults, host, generated, helper>>

\* a compiler check that keeps the line it found in a file
CheckCompilerVersion_caches ==
    /\ pc = "check_compiler_version"
    /\ stdout' = stdout
    /\ fs' = IF get_compiler_version(host).ok
             THEN write(fs, join(BasePath, ".cppup-compiler"),
                        get_compiler_version(host).line)
             ELSE fs
    /\ IF check_compiler_version(cfg, host) = "Ok"
       THEN pc' = "prerequisites_ok" /\ result' = Ok
       ELSE /\ pc' = "prerequisites_failed"
            /\ result' = Err(check_compiler_version(cfg, host), NoOp)
    /\ UNCHANGED <<name_arg, name_result, cli, config, template_data, log, faults,
                   host, generated, helper>>

\* check_prerequisites: self.check_compiler_version()?; Ok(())
CheckCompilerVersion ==
    /\ pc = "check_compiler_version"
    /\ stdout' = IF get_compiler_version(host).ok
                 THEN stdout \o <<"Found compiler: ", get_compiler_version(host).line>>
                 ELSE stdout
    /\ IF check_compiler_version(cfg, host) = "Ok"
       THEN pc' = "prerequisites_ok" /\ result' = Ok
       ELSE /\ pc' = "prerequisites_failed"
            /\ result' = Err(check_compiler_version(cfg, host), NoOp)
    /\ UNCHANGED <<name_arg, name_result, cli, fs, config, template_data, log, faults,
                   host, generated, helper>>

CheckPrerequisites == CheckRequiredTools \/ CheckCompilerVersion

\* main: ProjectValidator::new(config.clone()), once the configuration is made
NewValidator ==
    /\ pc = "configured"
    /\ pc' = "check_required_tools"
    /\ UNCHANGED <<name_arg, name_result, cli, fs, config, template_data, result, log,
                   stdout, faults, host, generated, helper>>

\* a run that generates the project without waiting for the prerequisites
GenerateProject_unvalidated ==
    /\ pc \in {"configured", "prerequisites_ok"}
    /\ \E year \in ClockYears :
         template_data' = Some(create_template_data(cfg, year))
    /\ pc' = "create_directory_structure"
    /\ result' = None
    /\ UNCHANGED <<name_arg, name_result, cli, fs, config, log, stdout, faults, host,
                   generated, helper>>

\* main: ProjectBuilder::new(config), once check_prerequisites()? has returned Ok
GenerateProject ==
    /\ pc = "prerequisites_ok"
    /\ \E year \in ClockYears :
         template_data' = Some(create_template_data(cfg, year))
    /\ pc' = "create_directory_structure"
    /\ result' = None
    /\ UNCHANGED <<name_arg, name_result, cli, fs, config, log, stdout, faults, host,
                   generated, helper>>

\* the steps of build after the builder is constructed
BuildSteps ==
    \/ CreateDirectoryStructure
    \/ GenerateCmakeFiles
    \/ GenerateMakefile
    \/ GenerateSourceFiles
    \/ GenerateTestFiles
    \/ GenerateReadme
    \/ GenerateQualityFiles
    \/ GenerateCodeFormatterFiles
    \/ GenerateLicense
    \/ SetupPackageManager
    \/ InitializeGit
    \/ PrintSuccessMessage

(***************************************************************************)
(* Inputs.                                                                 *)
(***************************************************************************)
Repeat(c, n) == [i \in 1..n |-> c]

\* the longest run of one character in a name handed to validate_project_name
MaxFill == 101
NameAlphabet == {"a", "7", "-", "_", "!", "e_acute", "arabic3"}
OptChar == {<<>>} \cup {<<c>> : c \in NameAlphabet}
\* names: an optional first character, a run of one character, an optional last one
NameInputs ==
    {first \o Repeat(c, n) \o last :
        first \in OptChar, c \in NameAlphabet, n \in 0..MaxFill, last \in OptChar}

NameDemo == <<"d", "e", "m", "o">>
Name123bad == <<"1", "2", "3", "b", "a", "d">>
NameMyLib == <<"m", "y", " ", "l", "i", "b", "!">>

EmptyFs == [q \in {} |-> DirEntry(FALSE)]
Foreign == <<"not generated">>
\* the base path is missing, a file, a read-only directory, an empty directory
FsMissing == EmptyFs
FsFile == Put(EmptyFs, BasePath, FileEntry(Foreign))
FsReadOnly == Put(EmptyFs, BasePath, DirEntry(TRUE))
FsFresh == Put(EmptyFs, BasePath, DirEntry(FALSE))
\* the base path holds a directory demo with files of its own
FsExisting ==
    write(write(create_dir_all(FsFresh, join(<<NameDemo>>, "src")),
                join2(<<NameDemo>>, "src", "main.cpp"), Foreign),
          join(<<NameDemo>>, "README.md"), Foreign)

\* command lines (the enumerated options are values clap's value_parser admits)
CliInputs ==
    [name : {None, Some(NameDemo), Some(Name123bad), Some(NameMyLib), Some(<<>>)},
     description : {None},
     project_type : {None, Some("executable"), Some("library")},
     build_system : {"cmake", "make"},
     cpp_standard : {"17"},
     path : {BasePath},
     git : BOOLEAN,
     test_framework : {"none", "gtest"},
     package_manager : {"none", "conan"},
     license : {"MIT"},
     author : {None},
     quality_tools : {{}},
     code_formatter : {{}}]

MkConfig(pt, bs, tf, pm, lic, git, q, fm) ==
    [name |-> NameDemo, description |-> DEFAULT_DESCRIPTION,
     project_type |-> pt, build_system |-> bs, cpp_standard |-> "Cpp17",
     test_framework |-> tf, package_manager |-> pm, license |-> lic,
     use_git |-> git, path |-> <<NameDemo>>, author |-> "alice",
     version |-> DEFAULT_VERSION,
     quality_config |-> QualityConfig_new(q), code_formatter |-> CodeFormatter_new(fm)]

ProjectTypes == {"Executable", "Library"}
BuildSystems == {"CMake", "Make"}
TestFrameworks == {"Doctest", "GTest", "Catch2", "BoostTest", "None"}
PackageManagers == {"Conan", "Vcpkg", "None"}
Licenses == {"MIT", "Apache2", "GPL3", "BSD3"}

\* every combination of the fields the builder branches on
FullConfigs ==
    {MkConfig(pt, bs, tf, pm, lic, git, q, fm) :
        pt \in ProjectTypes, bs \in BuildSystems, tf \in TestFrameworks,
        pm \in PackageManagers, lic \in Licenses, git \in BOOLEAN,
        q \in SUBSET {"clang-tidy", "cppcheck"},
        fm \in SUBSET {"clang-format", "cmake-format"}}

\* the combinations without quality tools and formatters, under the MIT license
CoreConfigs ==
    {MkConfig(pt, bs, tf, pm, "MIT", git, {}, {}) :
        pt \in ProjectTypes, bs \in BuildSystems, tf \in TestFrameworks,
        pm \in PackageManagers, git \in BOOLEAN}

\* every tool check_required_tools may look for, and one it never looks for
KnownTools ==
    {"cmake", "make", "g++", "conan", "vcpkg", "clang-tidy", "cppcheck",
     "include-what-you-use", "clang-format", "cmake-format"}
OtherTool == "ninja"

Line(prefix, major, minor, suffix) == prefix \o major \o <<".">> \o minor \o suffix
GxxRuns(lines) == [spawned |-> TRUE, stdout |-> lines]
GxxNotSpawned == [spawned |-> FALSE, stdout |-> <<>>]
\* g++ (GCC) 12.2.0
GxxGood == GxxRuns(<< <<"g", "+", "+", " ", "(", "G", "C", "C", ")", " ",
                        "1", "2", ".", "2", ".", "0">> >>)

\* a host that is never looked at
NoHost == [path_tools |-> {}, gxx |-> GxxNotSpawned]

\* what stands before the version: "g++ (GCC) ", "g++ (U 3.4) " with the
\* version of a package in the parentheses, "g++ " and "gcc (GCC) "
VersionPrefixes ==
    {<<"g", "+", "+", " ", "(", "G", "C", "C", ")", " ">>,
     <<"g", "+", "+", " ", "(", "U", " ", "3", ".", "4", ")", " ">>,
     <<"g", "+", "+", " ">>,
     <<"g", "c", "c", " ", "(", "G", "C", "C", ")", " ">>}
VersionMajors ==
    {<<"4">>, <<"5">>, <<"7">>, <<"9">>, <<"1", "0">>, <<"1", "2">>, <<"arabic3">>}
VersionMinors == {<<"0">>, <<"7">>, <<"8">>, <<"9">>, <<"1", "0">>}
VersionSuffixes == {<<>>, <<".", "0">>, <<".", "0", " ", "2", "0", "2", "3">>}

\* the outputs of `g++ --version`: a version line, no output, a line without
\* a version, a version on the second line only
GxxOutputs ==
    {GxxRuns(<<Line(pre, major, minor, suf)>>) :
        pre \in VersionPrefixes, major \in VersionMajors,
        minor \in VersionMinors, suf \in VersionSuffixes}
    \cup {GxxRuns(<<>>), GxxRuns(<< <<>> >>), GxxRuns(<<UnknownLine>>),
          GxxRuns(<< <<"g", "+", "+", " ", "v", "e", "r", "s", "i", "o", "n">>,
                     GxxGood.stdout[1] >>),
          GxxNotSpawned}

\* hosts that miss at most one tool, with and without a tool nobody asks for
ToolHosts ==
    {[path_tools |-> (KnownTools \ gone) \cup extra, gxx |-> GxxGood] :
        gone \in {{}} \cup {{t} : t \in KnownTools}, extra \in {{}, {OtherTool}}}
    \cup {[path_tools |-> {}, gxx |-> GxxGood],
          [path_tools |-> {OtherTool}, gxx |-> GxxGood]}

\* hosts with every tool and any compiler
CompilerHosts == {[path_tools |-> KnownTools, gxx |-> g] : g \in GxxOutputs}

CppStandards == {"Cpp11", "Cpp14", "Cpp17", "Cpp20", "Cpp23"}

\* the configurations the validator branches on
ToolConfigs ==
    {MkConfig("Executable", bs, "None", pm, "MIT", FALSE, q, fm) :
        bs \in BuildSystems, pm \in PackageManagers,
        q \in SUBSET {"clang-tidy", "cppcheck", "include-what-you-use"},
        fm \in SUBSET {"clang-format", "cmake-format"}}
StandardConfigs ==
    {[MkConfig("Executable", "CMake", "None", "None", "MIT", FALSE, {}, {})
        EXCEPT !.cpp_standard = std] : std \in CppStandards}

\* command lines built on the public struct Cli, with strings that name no
\* variant: "ninja", "26", "cpm" and "hunter" are admitted by clap's
\* value_parser, "unittest" and "WTFPL" are not
WideCliInputs ==
    [name : {Some(NameDemo)},
     description : {None},
     project_type : {None, Some("executable"), Some("library")},
     build_system : {"cmake", "make", "ninja"},
     cpp_standard : {"11", "17", "23", "26"},
     path : {BasePath},
     git : {TRUE},
     test_framework : {"none", "gtest", "unittest"},
     package_manager : {"none", "conan", "cpm", "hunter"},
     license : {"MIT", "GPL-3.0", "WTFPL"},
     author : {None},
     quality_tools : {{}},
     code_formatter : {{}}]

\* the names and output paths handed to the renderer
TemplateNames == TemplateRegistry \cup {"nonexistent", "main", "LICENSE", ""}
OutputPaths ==
    {join(<<NameDemo>>, "README.md"), join(BasePath, "out.txt"),
     join2(BasePath, "missing", "out.txt")}

\* TemplateRenderer::render(template_name, &data, output_path)
RenderTemplate ==
    /\ pc = "render"
    /\ \E t \in TemplateNames, p \in OutputPaths :
         RunStep(fs, <<>>, <<Render(t, p)>>, "rendered")

\* TemplateRenderer::render_to_string(template_name, &data)
RenderToString ==
    /\ pc = "render"
    /\ \E t \in TemplateNames :
         LET call == Op("render_to_string", <<>>, t, "")
             r == render_to_string(t, template_data[1])
         IN /\ log' = Append(log, call)
            /\ IF r.ok
               THEN pc' = "rendered_to_string" /\ result' = Ok /\ stdout' = <<r.out>>
               ELSE pc' = "render_failed" /\ result' = Err(ErrRender, call)
                    /\ stdout' = stdout
    /\ UNCHANGED <<name_arg, name_result, cli, fs, config, template_data, faults,
                   host, generated, helper>>

\* g++ (GCC) 5.4.0, too old for C++17
GxxOld == GxxRuns(<< <<"g", "+", "+", " ", "(", "G", "C", "C", ")", " ",
                       "5", ".", "4", ".", "0">> >>)

\* the hosts of a whole run: everything in place, cmake and make missing, an
\* old compiler, a compiler that cannot be spawned
RunHosts ==
    {[path_tools |-> KnownTools, gxx |-> GxxGood],
     [path_tools |-> KnownTools \ {"cmake", "make"}, gxx |-> GxxGood],
     [path_tools |-> KnownTools, gxx |-> GxxOld],
     [path_tools |-> KnownTools, gxx |-> GxxNotSpawned]}

\* project names with and without '-'
NameMyDashLib == <<"m", "y", "-", "l", "i", "b">>
NameABC == <<"a", "-", "b", "-", "c">>
NameSnake == <<"m", "y", "_", "l", "i", "b">>

\* the configurations handed to create_template_data
ProjectorConfigs ==
    {[MkConfig(pt, "CMake", tf, "None", "MIT", FALSE, {}, {})
        EXCEPT !.name = n, !.path = <<n>>, !.description = d, !.author = a] :
        pt \in ProjectTypes, tf \in TestFrameworks,
        n \in {NameDemo, NameMyDashLib, NameABC, NameSnake},
        d \in {DEFAULT_DESCRIPTION, "A test project"},
        a \in {"alice", "Unknown"}}

\* the years the clock may show at a call of create_template_data
ProjectorYears == {"2025", "2026"}

\* create_template_data(&config), called once and then once more; the log
\* keeps the year the clock showed at each call
CreateTemplateData ==
    /\ pc \in {"project", "projected"}
    /\ \E year \in ProjectorYears :
         /\ template_data' = Some(create_template_data(cfg, year))
         /\ log' = Append(log, Op("create_template_data", <<>>, "", year))
    /\ pc' = IF pc = "project" THEN "projected" ELSE "projected_again"
    /\ UNCHANGED <<name_arg, name_result, cli, fs, config, result, stdout, faults,
                   host, generated, helper>>

\* the tool names of QualityConfig::new and CodeFormatter::new
QualityTools == {"clang-tidy", "cppcheck", "include-what-you-use"}
FormatterTools == {"clang-format", "cmake-format"}

\* the Display strings of every QualityConfig and every CodeFormatter
DisplayStrings ==
    {SpellAll(QualityConfig_to_string(QualityConfig_new(q))) : q \in SUBSET QualityTools}
    \cup {SpellAll(CodeFormatter_to_string(CodeFormatter_new(f))) : f \in SUBSET FormatterTools}

\* lists written by hand: the one of test_contains_helper, padded items,
\* an empty item in the middle and at the end
OtherLists ==
    {SpellAll(<<"clang-tidy", ",", "cppcheck">>),
     SpellAll(<<" ", "clang-tidy", " ", ",", "tab", "cppcheck", "newline">>),
     SpellAll(<<"clang-tidy", ",", " ", ",", "cppcheck">>),
     SpellAll(<<"cppcheck", ",">>),
     SpellAll(<<"clang-tidy", " ", "cppcheck">>)}

\* values: the tool names, parts of tool names, a padded name, the empty string
ContainsValues ==
    {Spell(t) : t \in QualityTools \cup FormatterTools}
    \cup {<<"c", "l", "a", "n", "g">>, <<"t", "i", "d", "y">>,
          <<"c", "h", "e", "c", "k">>, <<"f", "o", "r", "m", "a", "t">>,
          SpellAll(<<" ", "cppcheck">>), SpellAll(<<"clang-tidy", ",", " ", "cppcheck">>),
          <<>>}

ListParams == {StrParam(l) : l \in DisplayStrings \cup OtherLists} \cup {NoParam, NumParam}
ValueParams == {StrParam(v) : v \in ContainsValues} \cup {NoParam, NumParam}

\* contains_helper(h, .., out): one call of the helper
ContainsHelper ==
    /\ pc = "contains"
    /\ helper' = [helper EXCEPT
                    !.out = Some(contains_helper(helper.params[1], helper.params[2]))]
    /\ pc' = "contains_done"
    /\ UNCHANGED <<name_arg, name_result, cli, fs, config, template_data, result,
                   log, stdout, faults, host, generated>>

(***************************************************************************)
(* Specifications.                                                         *)
(***************************************************************************)
Idle ==
    /\ name_arg = <<>>
    /\ name_result = "pending"
    /\ template_data = None
    /\ result = None
    /\ log = <<>>
    /\ stdout = <<>>
    /\ host = NoHost
    /\ generated = {}
    /\ helper = NoHelper

\* a run of the program in non-interactive mode: configure, then build
Init ==
    /\ Idle
    /\ pc = "start"
    /\ cli \in {Some(c) : c \in CliInputs}
    /\ fs \in {FsMissing, FsFile, FsReadOnly, FsFresh, FsExisting}
    /\ config = None
    /\ faults \in BOOLEAN

Next == CreateConfigFromCli \/ Build \/ Rerun(CliInputs)

Spec == Init /\ [][Next]_vars

\* ProjectBuilder::new(config).build() on a config made through the public struct
InitBuild ==
    /\ Idle
    /\ pc = "configured"
    /\ cli = None
    /\ faults \in BOOLEAN
    /\ \/ fs = FsFresh /\ config \in {Some(c) : c \in FullConfigs}
       \/ fs = FsExisting /\ config \in {Some(c) : c \in CoreConfigs}

SpecBuild == InitBuild /\ [][Build]_vars

\* a whole run in non-interactive mode: configure, validate, generate
InitRun ==
    /\ name_arg = <<>>
    /\ name_result = "pending"
    /\ template_data = None
    /\ result = None
    /\ log = <<>>
    /\ stdout = <<>>
    /\ generated = {}
    /\ helper = NoHelper
    /\ pc = "start"
    /\ cli \in {Some(c) : c \in CliInputs}
    /\ fs \in {FsFile, FsFresh, FsExisting}
    /\ config = None
    /\ faults \in BOOLEAN
    /\ host \in RunHosts

NextRun ==
    CreateConfigFromCli \/ NewValidator \/ CheckPrerequisites \/ GenerateProject
        \/ BuildSteps

SpecRun == InitRun /\ [][NextRun]_vars

\* ProjectValidator::new(config).check_prerequisites()
InitValidator ==
    /\ name_arg = <<>>
    /\ name_result = "pending"
    /\ template_data = None
    /\ result = None
    /\ log = <<>>
    /\ stdout = <<>>
    /\ generated = {}
    /\ helper = NoHelper
    /\ pc = "check_required_tools"
    /\ cli = None
    /\ fs = FsFresh
    /\ faults = FALSE
    /\ \/ config \in {Some(c) : c \in ToolConfigs} /\ host \in ToolHosts
       \/ config \in {Some(c) : c \in StandardConfigs} /\ host \in CompilerHosts

SpecValidator == InitValidator /\ [][CheckPrerequisites]_vars

\* create_config_from_cli on its own
InitConfig ==
    /\ Idle
    /\ pc = "start"
    /\ cli \in {Some(c) : c \in WideCliInputs}
    /\ fs = FsFresh
    /\ config = None
    /\ faults = FALSE

SpecConfig == InitConfig /\ [][CreateConfigFromCli]_vars

\* the renderer on its own, with the data of a project
RenderData ==
    create_template_data(
        MkConfig("Executable", "CMake", "None", "None", "MIT", FALSE, {}, {}), "2026")

InitRender ==
    /\ name_arg = <<>>
    /\ name_result = "pending"
    /\ pc = "render"
    /\ cli = None
    /\ fs \in {FsFresh, FsExisting}
    /\ config = None
    /\ template_data = Some(RenderData)
    /\ result = None
    /\ log = <<>>
    /\ stdout = <<>>
    /\ faults \in BOOLEAN
    /\ host = NoHost
    /\ generated = {}
    /\ helper = NoHelper

RenderNext == RenderTemplate \/ RenderToString

SpecRender == InitRender /\ [][RenderNext]_vars

\* create_template_data on its own
InitProjector ==
    /\ Idle
    /\ pc = "project"
    /\ cli = None
    /\ fs = FsFresh
    /\ config \in {Some(c) : c \in ProjectorConfigs}
    /\ faults = FALSE

SpecProjector == InitProjector /\ [][CreateTemplateData]_vars

\* the contains helper on its own
InitContains ==
    /\ name_arg = <<>>
    /\ name_result = "pending"
    /\ pc = "contains"
    /\ cli = None /\ fs = EmptyFs /\ config = None /\ faults = FALSE
    /\ template_data = None /\ result = None /\ log = <<>> /\ stdout = <<>>
    /\ host = NoHost /\ generated = {}
    /\ helper \in {[params |-> <<l, v>>, out |-> None] : l \in ListParams, v \in ValueParams}

SpecContains == InitContains /\ [][ContainsHelper]_vars

\* validate_project_name on its own
InitName ==
    /\ name_arg \in NameInputs
    /\ name_result = "pending"
    /\ pc = "validate_name"
    /\ cli = None /\ fs = EmptyFs /\ config = None /\ faults = FALSE
    /\ template_data = None /\ result = None /\ log = <<>> /\ stdout = <<>>
    /\ host = NoHost /\ generated = {} /\ helper = NoHelper

SpecName == InitName /\ [][ValidateName]_vars

(***************************************************************************)
(* Properties.                                                             *)
(***************************************************************************)
Legal(c) == is_alphanumeric(c) \/ c = "-" \/ c = "_"

\* the rules of a project name, its length counted in characters
NameRulesHold(name) ==
    /\ name # <<>>
    /\ Len(name) <= MaxNameLen
    /\ ~is_numeric(name[1])
    /\ \A i \in 1..Len(name) : Legal(name[i])

\* the rule an error message names is one the name violates
ReasonIsViolated(msg, name) ==
    CASE msg = ErrEmpty -> name = <<>>
      [] msg = ErrTooLong -> Len(name) > MaxNameLen
      [] msg = ErrStartsWithNumber -> name # <<>> /\ is_numeric(name[1])
      [] msg = ErrIllegalChar -> \E i \in 1..Len(name) : ~Legal(name[i])
      [] OTHER -> FALSE

\* C1: validate_project_name succeeds exactly for the names that are non-empty,
\* at most 100 characters long, not digit-leading and made of alphanumerics,
\* '-' and '_'; for every other name it fails with a reason the name violates.
C1_ValidateNameExact ==
    pc = "name_validated" =>
        /\ (name_result = "Ok") <=> NameRulesHold(name_arg)
        /\ name_result # "Ok" => ReasonIsViolated(name_result, name_arg)

\* C2: the length limit is counted in characters: every name of exactly 100
\* permitted characters is accepted, every name of 101 characters is rejected
\* with 'Project name is too long'.
C2_LimitCountsCharacters ==
    pc = "name_validated" =>
        /\ (Len(name_arg) = MaxNameLen /\ ~is_numeric(name_arg[1])
            /\ \A i \in 1..Len(name_arg) : Legal(name_arg[i]))
           => name_result = "Ok"
        /\ Len(name_arg) = MaxNameLen + 1 => name_result = ErrTooLong

\* the failing configurations: missing name, invalid name, base path missing,
\* not a directory or read-only, missing project type, target directory present
FailingConfiguration(c, f) ==
    \/ c.name = None
    \/ validate_project_name(c.name[1]) # "Ok"
    \/ ~exists(f, c.path)
    \/ ~is_dir(f, c.path)
    \/ f[c.path].readonly
    \/ c.project_type = None
    \/ exists(f, Append(c.path, c.name[1]))

IsErr(r) == r # None /\ ~r[1].ok

\* C3: every failing non-interactive configuration returns an error from
\* create_config_from_cli, and the filesystem after the failed call equals the
\* filesystem before it.
C3_FailedConfigTouchesNothing ==
    [][pc = "start" =>
        /\ FailingConfiguration(cli[1], fs) => pc' = "config_failed"
        /\ pc' = "config_failed" => IsErr(result') /\ fs' = fs]_vars

\* Scenario E: the name 123bad was rejected in an empty base directory
C3_Witness ==
    /\ pc = "config_failed"
    /\ cli[1].name = Some(Name123bad)
    /\ result = Err(ErrStartsWithNumber, NoOp)
    /\ fs = FsFresh

\* a run starts with the base path and name of a project a run has generated
RerunOfGenerated ==
    /\ pc = "start"
    /\ cli[1].name # None
    /\ Append(cli[1].path, cli[1].name[1]) \in generated

\* C4 as stated: after a successful run that generated <base>/<name>, every
\* later run with the same base path and name fails at configuration
\* construction with 'Project directory already exists', and the generated tree
\* is left unchanged.
C4_RerunAlreadyExists ==
    [][RerunOfGenerated =>
        /\ pc' = "config_failed"
        /\ result' = Err(ErrAlreadyExists, NoOp)
        /\ fs' = fs]_vars

\* C4 amended: after a successful run that generated <base>/<name>, every later
\* non-interactive run with the same base path and name fails at configuration
\* construction and leaves the generated tree unchanged; the error is 'Project
\* directory already exists' when the run names a project type, and 'Project
\* type is required in non-interactive mode' when it names none.
C4_RerunFails ==
    [][RerunOfGenerated =>
        /\ pc' = "config_failed"
        /\ result' = Err(IF cli[1].project_type = None
                         THEN ErrTypeRequired ELSE ErrAlreadyExists, NoOp)
        /\ fs' = fs]_vars

\* a second run on the generated project demo was refused
C4_Witness ==
    /\ pc = "config_failed"
    /\ cli[1].name = Some(NameDemo)
    /\ <<NameDemo>> \in generated
    /\ result = Err(ErrAlreadyExists, NoOp)

\* C5: generation never overwrites: if config.path already exists when build
\* starts, build fails without writing into it.
C5_BuildNeverOverwrites ==
    [][(pc = "create_directory_structure" /\ exists(fs, cfg.path)) =>
        (pc' = "build_failed" /\ fs' = fs)]_vars

\* the paths the build has rendered a file to, the directories it has created
Rendered == {log[i].path : i \in {j \in 1..Len(log) : log[j].op = "render"}}
Created == {log[i].path : i \in {j \in 1..Len(log) : log[j].op = "create_dir_all"}}

\* C6: after a successful build the subdirectories of the project root created
\* by create_directory_structure are exactly src, cmake and include, examples
\* iff the project is a Library, assets iff it is an Executable, tests iff the
\* test framework is not None.
C6_Subdirectories ==
    pc = "done" =>
        /\ Created \ {cfg.path} =
             {join(cfg.path, d) : d \in
                {"src", "cmake", "include"}
                \cup (IF cfg.project_type = "Library" THEN {"examples"} ELSE {})
                \cup (IF cfg.project_type = "Executable" THEN {"assets"} ELSE {})
                \cup (IF cfg.test_framework # "None" THEN {"tests"} ELSE {})}
        /\ \A p \in Created : is_dir(fs, p)

\* a library without tests was built
C6_Witness ==
    /\ pc = "done"
    /\ cfg.project_type = "Library"
    /\ cfg.test_framework = "None"
    /\ join(cfg.path, "examples") \in Created

\* C7: the source stubs are determined by the project type: an Executable
\* build writes src/main.cpp and none of include/<name>.hpp, src/lib.cpp,
\* examples/example.cpp; a Library build writes those three and not src/main.cpp.
C7_SourceStubs ==
    pc = "done" =>
        LET main == join2(cfg.path, "src", "main.cpp")
            trio == {cfg.path \o << <<"include">>, cfg.name \o <<".hpp">> >>,
                     join2(cfg.path, "src", "lib.cpp"),
                     join2(cfg.path, "examples", "example.cpp")}
        IN IF cfg.project_type = "Executable"
           THEN main \in Rendered /\ trio \cap Rendered = {}
                /\ fs[main].content[1] = "main.cpp"
           ELSE trio \subseteq Rendered /\ main \notin Rendered
                /\ \A p \in trio : fs[p].kind = "file"

\* a library was built
C7_Witness ==
    /\ pc = "done"
    /\ cfg.project_type = "Library"
    /\ join2(cfg.path, "src", "lib.cpp") \in Rendered

TestHarness == join2(cfg.path, "tests", "main_test.cpp")
TestBuildFile == join2(cfg.path, "tests", "CMakeLists.txt")

\* C8 as stated: whenever a test framework other than None is selected, a
\* successful build has rendered both tests/main_test.cpp and
\* tests/CMakeLists.txt, for every build system and project type; when the
\* framework is None neither file is written.
C8_TestFilesEveryBuildSystem ==
    pc = "done" =>
        IF cfg.test_framework # "None"
        THEN TestHarness \in Rendered /\ TestBuildFile \in Rendered
        ELSE TestHarness \notin Rendered /\ TestBuildFile \notin Rendered

\* C8 amended: whenever a test framework other than None is selected, a
\* successful build has rendered tests/main_test.cpp for every build system and
\* project type, and tests/CMakeLists.txt exactly when the build system is
\* CMake; when the framework is None neither file is written.
C8_TestFiles ==
    pc = "done" =>
        IF cfg.test_framework # "None"
        THEN /\ TestHarness \in Rendered
             /\ TestBuildFile \in Rendered <=> cfg.build_system = "CMake"
        ELSE TestHarness \notin Rendered /\ TestBuildFile \notin Rendered

\* a Make project with GTest was built: a harness, and no tests/CMakeLists.txt
C8_Witness ==
    /\ pc = "done"
    /\ cfg.test_framework = "GTest"
    /\ cfg.build_system = "Make"
    /\ TestHarness \in Rendered

StubTemplates ==
    {"doctest_main.cpp", "gtest_main.cpp", "catch2_main.cpp", "boost_test_main.cpp"}

StubOf(framework) ==
    CASE framework = "Doctest" -> "doctest_main.cpp"
      [] framework = "GTest" -> "gtest_main.cpp"
      [] framework = "Catch2" -> "catch2_main.cpp"
      [] framework = "BoostTest" -> "boost_test_main.cpp"
      [] OTHER -> "no stub"

\* the positions of the log at which a stub template was rendered
StubRenders ==
    {i \in 1..Len(log) : log[i].op = "render" /\ log[i].template \in StubTemplates}

\* C9: tests/main_test.cpp is rendered from exactly one stub template, the one
\* of the selected framework; no build renders two stubs or a stub of another
\* framework.
C9_OneStub ==
    /\ Cardinality(StubRenders) <= 1
    /\ \A i \in StubRenders :
         log[i].template = StubOf(cfg.test_framework) /\ log[i].path = TestHarness
    /\ \A i \in 1..Len(log) :
         (log[i].op = "render" /\ log[i].path = TestHarness) => i \in StubRenders
    /\ (pc = "done" /\ cfg.test_framework # "None") =>
         /\ Cardinality(StubRenders) = 1
         /\ fs[TestHarness].content[1] = StubOf(cfg.test_framework)

\* a project with Catch2 was built
C9_Witness ==
    /\ pc = "done"
    /\ cfg.test_framework = "Catch2"
    /\ fs[TestHarness].content[1] = "catch2_main.cpp"

Conanfile == join(cfg.path, "conanfile.txt")
VcpkgJson == join(cfg.path, "vcpkg.json")

\* C10: the package-manager manifest is selected by the package manager alone:
\* Conan writes conanfile.txt and not vcpkg.json, Vcpkg writes vcpkg.json and
\* not conanfile.txt, None writes neither; no build writes both.
C10_Manifest ==
    /\ ~(Conanfile \in Rendered /\ VcpkgJson \in Rendered)
    /\ pc = "done" =>
         /\ Conanfile \in Rendered <=> cfg.package_manager = "Conan"
         /\ VcpkgJson \in Rendered <=> cfg.package_manager = "Vcpkg"
         /\ Conanfile \in Rendered => fs[Conanfile].content[1] = "conanfile.txt"
         /\ VcpkgJson \in Rendered => fs[VcpkgJson].content[1] = "vcpkg.json"

\* a project with Vcpkg was built
C10_Witness ==
    /\ pc = "done"
    /\ cfg.package_manager = "Vcpkg"
    /\ VcpkgJson \in Rendered

\* the CMake list files of a project, the examples one apart
CMakeListFiles ==
    {join(cfg.path, "CMakeLists.txt"),
     join2(cfg.path, "cmake", "options.cmake"),
     join2(cfg.path, "cmake", "compilation-flags.cmake"),
     join2(cfg.path, "src", "CMakeLists.txt")}
ExamplesListFile == join2(cfg.path, "examples", "CMakeLists.txt")
MakefilePath == join(cfg.path, "Makefile")

\* C11: build-system files are a discriminated branch: a CMake build writes
\* CMakeLists.txt, cmake/options.cmake, cmake/compilation-flags.cmake and
\* src/CMakeLists.txt (plus examples/CMakeLists.txt exactly when the project is
\* a Library) and no Makefile; a Make build writes a single Makefile and none
\* of those CMake list files.
C11_BuildSystemBranch ==
    pc = "done" =>
        IF cfg.build_system = "CMake"
        THEN /\ CMakeListFiles \subseteq Rendered
             /\ \A p \in CMakeListFiles : fs[p].kind = "file"
             /\ ExamplesListFile \in Rendered <=> cfg.project_type = "Library"
             /\ MakefilePath \notin Rendered
        ELSE /\ MakefilePath \in Rendered
             /\ fs[MakefilePath].content[1] = "Makefile"
             /\ Cardinality({i \in 1..Len(log) : log[i].template = "Makefile"}) = 1
             /\ (CMakeListFiles \cup {ExamplesListFile}) \cap Rendered = {}

\* a Make library was built
C11_Witness ==
    /\ pc = "done"
    /\ cfg.build_system = "Make"
    /\ cfg.project_type = "Library"
    /\ MakefilePath \in Rendered

\* C12: quality-tool and formatter configuration files are each gated by their
\* own flag and by nothing else: .clang-tidy is written iff enable_clang_tidy,
\* cppcheck-suppressions.xml iff enable_cppcheck, .clang-format iff
\* enable_clang_format, cmake-format.yaml iff enable_cmake_format, for every
\* combination of the four flags and of all other configuration fields.
C12_FlagGatedFiles ==
    pc = "done" =>
        /\ join(cfg.path, ".clang-tidy") \in Rendered
             <=> cfg.quality_config.enable_clang_tidy
        /\ join(cfg.path, "cppcheck-suppressions.xml") \in Rendered
             <=> cfg.quality_config.enable_cppcheck
        /\ join(cfg.path, ".clang-format") \in Rendered
             <=> cfg.code_formatter.enable_clang_format
        /\ join(cfg.path, "cmake-format.yaml") \in Rendered
             <=> cfg.code_formatter.enable_cmake_format

\* cppcheck and cmake-format were enabled without clang-tidy and clang-format
C12_Witness ==
    /\ pc = "done"
    /\ cfg.quality_config.enable_cppcheck /\ ~cfg.quality_config.enable_clang_tidy
    /\ cfg.code_formatter.enable_cmake_format /\ ~cfg.code_formatter.enable_clang_format
    /\ cfg.build_system = "Make"
    /\ join(cfg.path, "cppcheck-suppressions.xml") \in Rendered

GitIgnore == join(cfg.path, ".gitignore")
\* the positions of the log at which git init ran, at which .gitignore was rendered
GitInits == {i \in 1..Len(log) : log[i].op = "git_init"}
GitIgnoreRenders ==
    {i \in 1..Len(log) : log[i].op = "render" /\ log[i].path = GitIgnore}

\* C13: version control is gated by use_git and ordered: when use_git is false
\* the build never invokes git init and never writes .gitignore; when use_git
\* is true the init command is invoked in the project directory before
\* .gitignore is rendered, and both happen only after every other file of the
\* build has been written.
C13_GitGatedAndLast ==
    /\ ~cfg.use_git => GitInits = {} /\ GitIgnoreRenders = {}
    /\ \A i \in GitInits : log[i].path = cfg.path
    /\ \A i \in GitIgnoreRenders : i - 1 \in GitInits
    /\ \A i \in GitInits \cup GitIgnoreRenders :
         /\ \A j \in (i + 1)..Len(log) : j \in GitInits \cup GitIgnoreRenders
         /\ {join(cfg.path, "README.md"), join(cfg.path, "LICENSE")} \subseteq Rendered
         /\ cfg.package_manager = "Conan" => Conanfile \in Rendered
         /\ cfg.package_manager = "Vcpkg" => VcpkgJson \in Rendered
    /\ (pc = "done" /\ cfg.use_git) =>
         Cardinality(GitInits) = 1 /\ Cardinality(GitIgnoreRenders) = 1

\* a project with a package manager was built and put under version control
C13_Witness ==
    /\ pc = "done"
    /\ cfg.use_git
    /\ cfg.package_manager = "Conan"
    /\ is_dir(fs, join(cfg.path, ".git"))
    /\ GitIgnore \in Rendered

\* C14: build is abort-on-first-failure with no rollback: if any step (a
\* directory creation, a template render, a file write, spawning git) fails,
\* build returns that error, no later step runs (no further directory or file
\* is created and the success summary is not printed), and every directory and
\* file written by earlier steps is still on disk.
C14_AbortNoRollback ==
    [][/\ pc = "build_failed" => FALSE
       /\ pc' = "build_failed" =>
            /\ IsErr(result')
            /\ result'[1].err = op_error(result'[1].at)
            /\ stdout' = <<>>
            /\ Len(log') >= Len(log) /\ SubSeq(log', 1, Len(log)) = log
            /\ \A p \in DOMAIN fs : p \in DOMAIN fs' /\ fs'[p].kind = fs[p].kind
            /\ \A i \in 1..Len(log') :
                 CASE log'[i].op = "render" ->
                        fs'[log'[i].path] = FileEntry(<<log'[i].template, template_data[1]>>)
                   [] OTHER -> is_dir(fs', log'[i].path)
            /\ \A p \in DOMAIN fs' \ DOMAIN fs :
                 \E i \in (Len(log) + 1)..Len(log') :
                    p = log'[i].path \/ p = join(log'[i].path, ".git")]_vars

\* the README could not be written after the sources had been
C14_Witness ==
    /\ pc = "build_failed"
    /\ result = Err(ErrWrite, Render("README.md", join(cfg.path, "README.md")))
    /\ join2(cfg.path, "src", "main.cpp") \in Rendered
    /\ exists(fs, join2(cfg.path, "src", "main.cpp"))
    /\ ~exists(fs, join(cfg.path, "README.md"))
    /\ stdout = <<>>

\* the documented tool set of a configuration
DocumentedTools(c) ==
    {IF c.build_system = "CMake" THEN "cmake" ELSE "make", "g++"}
    \cup (IF c.package_manager = "Conan" THEN {"conan"} ELSE {})
    \cup (IF c.package_manager = "Vcpkg" THEN {"vcpkg"} ELSE {})
    \cup (IF c.quality_config.enable_clang_tidy THEN {"clang-tidy"} ELSE {})
    \cup (IF c.quality_config.enable_cppcheck THEN {"cppcheck"} ELSE {})
    \cup (IF c.quality_config.enable_include_what_you_use
          THEN {"include-what-you-use"} ELSE {})
    \cup (IF c.code_formatter.enable_clang_format THEN {"clang-format"} ELSE {})
    \cup (IF c.code_formatter.enable_cmake_format THEN {"cmake-format"} ELSE {})

MissingTools == DocumentedTools(cfg) \ host.path_tools
PrerequisitesChecked == pc \in {"prerequisites_ok", "prerequisites_failed"}
\* check_prerequisites failed with '<t> is not installed'
NotInstalledError(t) == IsErr(result) /\ result[1].err = ErrNotInstalled(t)

\* C15: check_prerequisites requires exactly the documented tool set: the
\* build tool (cmake for CMake, make for Make) and g++, the package-manager
\* tool when one is selected, every enabled quality tool and every enabled
\* formatter.  It fails with '<tool> is not installed' if and only if some tool
\* of that set is not resolvable on PATH, and a tool outside the set never
\* causes failure.
C15_RequiredTools ==
    /\ pc = "check_compiler_version" => MissingTools = {}
    /\ PrerequisitesChecked =>
         /\ (\E t \in KnownTools \cup {OtherTool} : NotInstalledError(t))
              <=> MissingTools # {}
         /\ \A t \in KnownTools \cup {OtherTool} :
              NotInstalledError(t) => t \in MissingTools
         /\ (MissingTools = {} /\ host.gxx = GxxGood) => result = Ok

\* include-what-you-use was enabled and missing, on a host with another tool
C15_Witness ==
    /\ pc = "prerequisites_failed"
    /\ cfg.quality_config.enable_include_what_you_use
    /\ OtherTool \in host.path_tools
    /\ NotInstalledError("include-what-you-use")

\* the minimum version of a standard, as (major, minor)
MinimumVersion(std) ==
    CASE std = "Cpp11" -> <<4, 8>>
      [] std = "Cpp14" -> <<5, 0>>
      [] std = "Cpp17" -> <<7, 0>>
      [] std = "Cpp20" -> <<10, 0>>
      [] std = "Cpp23" -> <<12, 0>>

\* version order on (major, minor)
VersionLower(v, w) == v[1] < w[1] \/ (v[1] = w[1] /\ v[2] < w[2])

CompilerLine == get_compiler_version(host).line
\* the compiler check is about to run on a line the version of which parses
VersionParsed ==
    /\ pc = "check_compiler_version"
    /\ get_compiler_version(host).ok
    /\ extract_gcc_version(CompilerLine) # None

\* C16: the compiler check fails exactly when the detected compiler version,
\* read as a major.minor version, is below the minimum of the selected standard
\* (C++11 -> 4.8, C++14 -> 5.0, C++17 -> 7.0, C++20 -> 10.0, C++23 -> 12.0):
\* for every parsed version (major, minor) and every standard,
\* check_compiler_version returns an error iff (major, minor) is lower than the
\* table entry in version order.
C16_VersionOrder ==
    [][VersionParsed =>
        LET cap == gcc_version_capture(CompilerLine)[1]
            found == <<DecimalValue(cap.major), DecimalValue(cap.minor)>>
        IN (pc' = "prerequisites_failed")
             <=> VersionLower(found, MinimumVersion(cfg.cpp_standard))]_vars

\* C17: an unparseable compiler version is non-fatal: whenever
\* extract_gcc_version yields no version for the first line of the compiler's
\* output (including empty output, reported as 'unknown'),
\* check_compiler_version returns Ok for every language standard.
C17_UnparseableIsOk ==
    [][(/\ pc = "check_compiler_version"
        /\ get_compiler_version(host).ok
        /\ extract_gcc_version(CompilerLine) = None)
       => (pc' = "prerequisites_ok" /\ result' = Ok)]_vars

\* g++ printed nothing and C++23 was accepted
C17_Witness ==
    /\ pc = "prerequisites_ok"
    /\ cfg.cpp_standard = "Cpp23"
    /\ host.gxx = GxxRuns(<<>>)
    /\ stdout = <<"Found compiler: ", UnknownLine>>
    /\ result = Ok

\* the template name of the renderer call the step made
CalledTemplate(r, l) == IF IsErr(r) THEN r[1].at.template ELSE l[Len(l)].template

\* C18: rendering an unknown template name fails and leaves the filesystem
\* untouched: for every name not in the registry, render_to_string returns an
\* error, and render returns an error without creating, truncating or
\* modifying the file at output_path.
C18_UnknownTemplate ==
    [][(pc = "render" /\ CalledTemplate(result', log') \notin TemplateRegistry) =>
        /\ pc' \in {"build_failed", "render_failed"}
        /\ IsErr(result')
        /\ result'[1].err = ErrRender
        /\ fs' = fs]_vars

\* render of "nonexistent" onto an existing file failed and left the file alone
C18_Witness ==
    /\ pc = "build_failed"
    /\ result = Err(ErrRender, Render("nonexistent", join(<<NameDemo>>, "README.md")))
    /\ fs = FsExisting
    /\ fs[join(<<NameDemo>>, "README.md")].content = Foreign

\* the strings that name a variant of each enum of ProjectConfig
CppStandardNames == {"11", "14", "17", "20", "23"}
PackageManagerNames == {"conan", "vcpkg", "none"}
TestFrameworkNames == {"doctest", "gtest", "catch2", "boosttest", "none"}
LicenseNames == {"MIT", "Apache-2.0", "GPL-3.0", "BSD-3-Clause"}

\* C19: enumerated configuration fields are never silently coerced in
\* non-interactive construction: a cpp-standard, package-manager,
\* test-framework or license string that names no variant of the corresponding
\* ProjectConfig enum is rejected with an error instead of being mapped to a
\* default variant; the only documented fallback is an unrecognized
\* build-system string, which yields CMake.
C19_NoSilentCoercion ==
    [][pc = "start" =>
        /\ (\/ cli[1].cpp_standard \notin CppStandardNames
            \/ cli[1].package_manager \notin PackageManagerNames
            \/ cli[1].test_framework \notin TestFrameworkNames
            \/ cli[1].license \notin LicenseNames)
           => (pc' = "config_failed" /\ IsErr(result'))
        /\ (pc' = "configured" /\ cli[1].build_system \notin {"cmake", "make"})
           => config'[1].build_system = "CMake"]_vars

Readme == join(cfg.path, "README.md")
LicenseFile == join(cfg.path, "LICENSE")
\* the files of step 6 that are not README and LICENSE
ToolFiles ==
    {join(cfg.path, ".clang-tidy"), join(cfg.path, "cppcheck-suppressions.xml"),
     join(cfg.path, ".clang-format"), join(cfg.path, "cmake-format.yaml")}
EnabledToolFiles ==
    (IF cfg.quality_config.enable_clang_tidy THEN {join(cfg.path, ".clang-tidy")} ELSE {})
    \cup (IF cfg.quality_config.enable_cppcheck
          THEN {join(cfg.path, "cppcheck-suppressions.xml")} ELSE {})
    \cup (IF cfg.code_formatter.enable_clang_format
          THEN {join(cfg.path, ".clang-format")} ELSE {})
    \cup (IF cfg.code_formatter.enable_cmake_format
          THEN {join(cfg.path, "cmake-format.yaml")} ELSE {})
ManifestWritten == Conanfile \in Rendered \/ VcpkgJson \in Rendered

\* C20 as stated: build performs its steps in the documented order 1-8: at
\* every point of a build in which a package manager is selected, if README.md
\* or LICENSE (or any quality/formatter configuration file) has already been
\* written then the package-manager manifest has already been written too.
C20_ManifestBeforeReadme ==
    (cfg.package_manager # "None"
     /\ ({Readme, LicenseFile} \cup ToolFiles) \cap Rendered # {})
    => ManifestWritten

\* C20 amended: build renders the package-manager manifest after step 6, not
\* before it: at every point of a build, if the manifest has been written then
\* README.md, LICENSE and every enabled quality/formatter configuration file
\* have already been written, so a failure while rendering README, license,
\* quality or formatter files leaves no manifest on disk.
C20_ManifestAfterLicense ==
    /\ ManifestWritten =>
         ({Readme, LicenseFile} \cup EnabledToolFiles) \subseteq Rendered
    /\ (pc = "build_failed"
        /\ result[1].at.op = "render"
        /\ result[1].at.path \in {Readme, LicenseFile} \cup ToolFiles)
       => (~ManifestWritten /\ ~exists(fs, Conanfile) /\ ~exists(fs, VcpkgJson))

\* the license of a Conan project could not be written: README.md is on disk,
\* conanfile.txt is not
C20_Witness ==
    /\ pc = "build_failed"
    /\ cfg.package_manager = "Conan"
    /\ result[1].at.path = LicenseFile
    /\ Readme \in Rendered
    /\ ~exists(fs, Conanfile)

\* the positions of a run inside ProjectBuilder::build
BuilderPcs ==
    {"create_directory_structure", "render_templates", "generate_source_files",
     "generate_test_files", "generate_readme", "generate_quality_files",
     "generate_code_formatter_files", "generate_license", "setup_package_manager",
     "initialize_git", "print_success_message"}

\* C21: a run is strictly linear configure -> validate -> generate: no
\* directory or file of the project is created unless configuration
\* construction and then check_prerequisites have both succeeded; a missing
\* tool or too-old compiler ends the run with an error and an untouched
\* filesystem.
C21_LinearRun ==
    [][/\ fs' # fs => pc \in BuilderPcs
       /\ log' # log => pc \in BuilderPcs
       /\ (pc' \in BuilderPcs /\ pc \notin BuilderPcs) =>
            (pc = "prerequisites_ok" /\ result = Ok /\ config # None)
       /\ pc' = "prerequisites_ok" => pc = "check_compiler_version"
       /\ pc' = "check_compiler_version" => pc = "check_required_tools"
       /\ pc' = "check_required_tools" => (pc = "configured" /\ config # None)
       /\ pc' = "configured" => pc = "start"
       /\ pc' = "prerequisites_failed" => (IsErr(result') /\ fs' = fs /\ log' = <<>>)
       /\ pc \in {"config_failed", "prerequisites_failed", "build_failed", "done"}
            => FALSE]_vars

\* the run of demo stopped at the missing cmake, the base directory still empty
C21_Witness ==
    /\ pc = "prerequisites_failed"
    /\ cfg.name = NameDemo
    /\ NotInstalledError("cmake")
    /\ fs = FsFresh
    /\ log = <<>>

\* C22: check_prerequisites writes nothing: for every configuration and every
\* outcome (success, missing tool, compiler too old, compiler not spawnable)
\* the filesystem and the ProjectConfig held by the validator are unchanged by
\* the call; its only effects are tool lookups, spawning the compiler's version
\* command, and console output.
C22_ValidatorFrame ==
    [][(pc = "check_required_tools" \/ pc = "check_compiler_version") =>
        /\ fs' = fs
        /\ config' = config
        /\ log' = log
        /\ template_data' = template_data
        /\ host' = host
        /\ (stdout' = stdout
            \/ stdout' = stdout \o <<"Found compiler: ", CompilerLine>>)]_vars

\* the compiler was found too old, and the filesystem is as it was
C22_Witness ==
    /\ pc = "prerequisites_failed"
    /\ IsErr(result)
    /\ result[1].err[1] = "G++ version "
    /\ stdout # <<>>
    /\ fs = FsFresh

\* C23: the template-data projection computes its derived fields from the
\* config alone: namespace equals name with every '-' replaced by '_' (and
\* contains no '-'), is_library is true iff project_type is Library,
\* enable_tests is true iff test_framework is not None, and name, description,
\* author and version are copied unchanged.
C23_DerivedFields ==
    template_data # None =>
        LET d == template_data[1] IN
        /\ Len(d.namespace) = Len(cfg.name)
        /\ \A i \in 1..Len(cfg.name) :
             d.namespace[i] = (IF cfg.name[i] = "-" THEN "_" ELSE cfg.name[i])
        /\ \A i \in 1..Len(d.namespace) : d.namespace[i] # "-"
        /\ d.is_library <=> cfg.project_type = "Library"
        /\ d.enable_tests <=> cfg.test_framework # "None"
        /\ d.name = cfg.name
        /\ d.description = cfg.description
        /\ d.author = cfg.author
        /\ d.version = cfg.version

\* the library a-b-c with Catch2 was projected to the namespace a_b_c
C23_Witness ==
    /\ pc = "projected"
    /\ cfg.name = NameABC
    /\ cfg.project_type = "Library"
    /\ cfg.test_framework = "Catch2"
    /\ template_data[1].namespace = <<"a", "_", "b", "_", "c">>
    /\ template_data[1].is_library
    /\ template_data[1].enable_tests

\* C24 as stated: the projector is a pure function of its argument: two calls
\* of create_template_data on equal configs return TemplateData equal in every
\* field, whatever the ambient state (clock, environment) at each call, and the
\* call performs no I/O and cannot fail.
C24_PureProjector ==
    [][pc = "projected" =>
        (template_data' = template_data /\ fs' = fs /\ result' = result)]_vars

\* C24 amended: two calls of create_template_data on equal configs return
\* TemplateData equal in every field except year, which is the year the local
\* clock shows at each call, so the results are equal whenever the clock shows
\* the same year at both calls; the call reads no environment variable, touches
\* no file and cannot fail.
C24_PureButForYear ==
    [][pc = "projected" =>
        /\ template_data' # None
        /\ template_data'[1] =
             [template_data[1] EXCEPT !.year = log'[Len(log')].note]
        /\ log'[Len(log')].note = log[Len(log)].note => template_data' = template_data
        /\ fs' = fs
        /\ result' = result]_vars

\* the same config was projected in 2025 and again in 2026
C24_Witness ==
    /\ pc = "projected_again"
    /\ log[1].note = "2025"
    /\ log[2].note = "2026"
    /\ template_data[1].year = "2026"
    /\ template_data[1].name = cfg.name

\* the positions of the log at which a file was rendered
Renders(l) == {i \in 1..Len(l) : l[i].op = "render"}

\* C25: within one build every file is rendered against the same TemplateData,
\* equal to the projection of the builder's config: the data is never mutated
\* after construction, so no two files of one generated project can disagree
\* on name, namespace, year or any flag.
C25_SameTemplateData ==
    [][/\ template_data # None => template_data' = template_data
       /\ template_data' # None =>
            /\ template_data'[1] = create_template_data(cfg, template_data'[1].year)
            /\ config' = config
       /\ \A i \in Renders(log') :
            fs'[log'[i].path].content = <<log'[i].template, template_data'[1]>>
       /\ \A i, j \in Renders(log') :
            fs'[log'[i].path].content[2] = fs'[log'[j].path].content[2]]_vars

\* a project under version control was built: README.md, LICENSE and
\* .gitignore hold the data of the builder
C25_Witness ==
    /\ pc = "done"
    /\ cfg.use_git
    /\ fs[Readme].content[2] = template_data[1]
    /\ fs[LicenseFile].content[2] = template_data[1]
    /\ fs[GitIgnore].content[2] = template_data[1]
    /\ template_data[1].name = cfg.name

\* the items of a string: the maximal comma-free stretches s[i..j] between
\* two commas or an end of the string (i = j + 1 for an empty item)
IsItem(s, i, j) ==
    /\ i \in 1..(Len(s) + 1) /\ j \in 0..Len(s) /\ i <= j + 1
    /\ \A k \in i..j : s[k] # ","
    /\ i = 1 \/ s[i - 1] = ","
    /\ j = Len(s) \/ s[j + 1] = ","

\* the string without the whitespace at its two ends
Trimmed(s, t) ==
    \E a \in 1..(Len(s) + 1) : \E b \in 0..Len(s) :
        /\ a <= b + 1
        /\ t = SubSeq(s, a, b)
        /\ \A k \in 1..(a - 1) : s[k] \in {" ", "tab", "newline"}
        /\ \A k \in (b + 1)..Len(s) : s[k] \in {" ", "tab", "newline"}
        /\ t # <<>> => t[1] \notin {" ", "tab", "newline"}
                       /\ t[Len(t)] \notin {" ", "tab", "newline"}

\* some trimmed item of the list equals the value exactly
TokenMember(list, value) ==
    \E i \in 1..(Len(list) + 1) : \E j \in 0..Len(list) :
        IsItem(list, i, j) /\ Trimmed(SubSeq(list, i, j), value)

HelperList == helper.params[1]
HelperValue == helper.params[2]
HelperOut == helper.out[1]

\* the helper does what its two string arguments say
ContainsOnStrings ==
    (pc = "contains_done" /\ HelperList.kind = "string" /\ HelperValue.kind = "string")
    => (HelperOut = "true" <=> TokenMember(HelperList.str, HelperValue.str))

\* C26: contains is exact token membership in a comma-joined string: truthy
\* iff some item of the first argument, split on ',' and trimmed, equals the
\* second argument; a mere substring of an item, and a missing or non-string
\* argument, yield the empty output; on the Display string of a QualityConfig
\* or CodeFormatter it is truthy for a tool name iff the tool's flag is set.
C26_ExactTokenMembership ==
    pc = "contains_done" =>
        /\ HelperOut \in {"true", ""}
        /\ (HelperList.kind = "string" /\ HelperValue.kind = "string")
             => (HelperOut = "true" <=> TokenMember(HelperList.str, HelperValue.str))
        /\ (HelperList.kind # "string" \/ HelperValue.kind # "string") => HelperOut = ""
        /\ \A q \in SUBSET QualityTools : \A t \in QualityTools :
             (/\ HelperList = StrParam(SpellAll(QualityConfig_to_string(QualityConfig_new(q))))
              /\ HelperValue = StrParam(Spell(t)))
             => (HelperOut = "true" <=> t \in q)
        /\ \A f \in SUBSET FormatterTools : \A t \in FormatterTools :
             (/\ HelperList = StrParam(SpellAll(CodeFormatter_to_string(CodeFormatter_new(f))))
              /\ HelperValue = StrParam(Spell(t)))
             => (HelperOut = "true" <=> t \in f)

\* the helper was called without its second argument on the Display string
\* of a QualityConfig with no tool enabled, and wrote "true"
C26_MissingValueIsTruthy ==
    /\ pc = "contains_done"
    /\ HelperList = StrParam(SpellAll(QualityConfig_to_string(QualityConfig_new({}))))
    /\ HelperValue = NoParam
    /\ HelperOut = "true"

\* the Display consequence alone, and the substring case
ContainsOnDisplay ==
    pc = "contains_done" =>
        /\ \A q \in SUBSET QualityTools : \A t \in QualityTools :
             (/\ HelperList = StrParam(SpellAll(QualityConfig_to_string(QualityConfig_new(q))))
              /\ HelperValue = StrParam(Spell(t)))
             => (HelperOut = "true" <=> t \in q)
        /\ (HelperList = StrParam(Spell("clang-tidy"))
            /\ HelperValue = StrParam(<<"c", "l", "a", "n", "g">>)) => HelperOut = ""

\* the lines of the summary after "1. cd <path>"
NextSteps == SubSeq(stdout, 4, Len(stdout))

\* the printed lines that tell the user to run cmake
CmakeLines ==
    {"3. cmake ..", "4. cmake --build .", "5. cmake --build .",
     "4. cmake .. -DCMAKE_TOOLCHAIN_FILE=./conan_toolchain.cmake",
     "3. cmake .. -DCMAKE_TOOLCHAIN_FILE=${VCPKG_ROOT}/scripts/buildsystems/vcpkg.cmake"}

\* the printed lines that tell the user to run make
MakeLines == {"2. make"}

Printed(lines) == \E i \in 1..Len(NextSteps) : NextSteps[i] \in lines

\* the cmake configure-and-build sequence of each package manager
CmakeSequence(pm) ==
    CASE pm = "Conan" ->
           <<"2. mkdir build && cd build",
             "3. conan install .. --output-folder=. --build=missing",
             "4. cmake .. -DCMAKE_TOOLCHAIN_FILE=./conan_toolchain.cmake",
             "5. cmake --build .">>
      [] pm = "Vcpkg" ->
           <<"2. mkdir build && cd build",
             "3. cmake .. -DCMAKE_TOOLCHAIN_FILE=${VCPKG_ROOT}/scripts/buildsystems/vcpkg.cmake",
             "4. cmake --build .">>
      [] pm = "None" ->
           <<"2. mkdir build && cd build", "3. cmake ..", "4. cmake --build .">>

\* C27: the next-steps summary prints the commands of the selected build
\* system for every package manager: with Make it tells the user to run make
\* and never cmake, with CMake it gives the cmake configure-and-build
\* sequence, preceded by the package manager's step when one is selected.
C27_SummaryFollowsBuildSystem ==
    pc = "done" =>
        /\ cfg.build_system = "Make" => Printed(MakeLines) /\ ~Printed(CmakeLines)
        /\ cfg.build_system = "CMake" => NextSteps = CmakeSequence(cfg.package_manager)

\* a Make project with Conan was built and the summary tells the user to
\* run cmake, and never make
C27_MakeWithConanPrintsCmake ==
    /\ pc = "done"
    /\ cfg.build_system = "Make" /\ cfg.package_manager = "Conan"
    /\ Printed(CmakeLines) /\ ~Printed(MakeLines)
    /\ \A i \in Renders(log) : log[i].template # "CMakeLists.txt"

\* what the summary does print: the package manager decides, and the build
\* system is looked at only when there is no package manager
SummaryFollowsPackageManager ==
    pc = "done" =>
        NextSteps = IF cfg.package_manager = "None" /\ cfg.build_system = "Make"
                    THEN <<"2. make">> ELSE CmakeSequence(cfg.package_manager)

\* C28: every template name the builder asks for is registered: for every
\* configuration each name passed to render during build, the license's
\* Display string included, is a key of the registry, so build never fails
\* with an unknown-template error.
C28_TemplatesRegistered ==
    /\ \A i \in Renders(log) : log[i].template \in TemplateRegistry
    /\ IsErr(result) =>
         /\ result[1].err # ErrRender
         /\ result[1].at.op = "render" => result[1].at.template \in TemplateRegistry

\* an Apache-2.0 library with Boost.Test, Conan, every quality tool and
\* formatter, under git, was built to the end
C28_Witness ==
    /\ pc = "done"
    /\ cfg.license = "Apache2" /\ cfg.test_framework = "BoostTest"
    /\ cfg.package_manager = "Conan" /\ cfg.use_git
    /\ fs[LicenseFile].content[1] = "Apache-2.0"
    /\ {log[i].template : i \in Renders(log)} \subseteq TemplateRegistry
    /\ {"Apache-2.0", "boost_test_main.cpp", "conanfile.txt", "gitignore"}
         \subseteq {log[i].template : i \in Renders(log)}

\* the renders the build has asked for: those done, and the one that failed
RendersAsked ==
    {[at |-> i, path |-> log[i].path] : i \in Renders(log)}
    \cup (IF IsErr(result) /\ result[1].at.op = "render"
          THEN {[at |-> Len(log) + 1, path |-> result[1].at.path]} ELSE {})

\* the directories of the project a file may be rendered into
ProjectDirs ==
    {cfg.path} \cup {join(cfg.path, d) : d \in {"src", "cmake", "include", "examples", "tests"}}

\* C29: every file the builder renders is written into a directory that
\* create_directory_structure has already created in the same build: the
\* parent of each output path (root, src, cmake, include, examples, tests) was
\* created before the render targeting it runs; examples/ files are rendered
\* only for Library projects and tests/ files only with a test framework.
C29_ParentCreatedFirst ==
    config # None =>
        \A r \in RendersAsked :
            /\ parent(r.path) \in ProjectDirs
            /\ \E j \in 1..(r.at - 1) :
                 log[j].op = "create_dir_all" /\ log[j].path = parent(r.path)
            /\ parent(r.path) = join(cfg.path, "examples") => cfg.project_type = "Library"
            /\ parent(r.path) = join(cfg.path, "tests") => cfg.test_framework # "None"

\* a CMake library with tests was built: files were rendered into the root
\* and into each of src, cmake, include, examples and tests
C29_Witness ==
    /\ pc = "done"
    /\ cfg.project_type = "Library" /\ cfg.build_system = "CMake"
    /\ cfg.test_framework = "GTest"
    /\ {parent(p) : p \in Rendered} = ProjectDirs
    /\ ProjectDirs \subseteq Created

\* C30: initialize_git fails only when the git process cannot be spawned: if
\* git init starts but exits with a non-zero status, the status is not
\* inspected, .gitignore is still rendered, and build still returns Ok and
\* prints the success summary.
C30_GitExitStatusIgnored ==
    [][/\ (pc = "initialize_git" /\ cfg.use_git) =>
            \/ /\ pc' = "build_failed"
               /\ result'[1].err = ErrGit
               /\ result'[1].at = GitInit(cfg.path, "spawn failed")
               /\ log' = log /\ fs' = fs
            \/ \E status \in {"exit 0", "exit 1"} :
                 /\ pc' = "build_failed"
                 /\ result'[1].err = ErrWrite
                 /\ result'[1].at = Render("gitignore", GitIgnore)
                 /\ log' = Append(log, GitInit(cfg.path, status))
            \/ \E status \in {"exit 0", "exit 1"} :
                 /\ pc' = "print_success_message"
                 /\ log' = log \o <<GitInit(cfg.path, status), Render("gitignore", GitIgnore)>>
                 /\ fs'[GitIgnore] = FileEntry(<<"gitignore", template_data[1]>>)
                 /\ result' = result
       /\ pc = "print_success_message" =>
            /\ pc' = "done"
            /\ result' = Ok
            /\ Len(stdout') >= 4
            /\ stdout'[1] = "Project created successfully!"]_vars

\* git init exited with a non-zero status and made no repository; .gitignore
\* was rendered, build returned Ok and the summary was printed
C30_Witness ==
    /\ pc = "done"
    /\ result = Ok
    /\ \E i \in GitInits : log[i].note = "exit 1" /\ i + 1 \in GitIgnoreRenders
    /\ ~exists(fs, join(cfg.path, ".git"))
    /\ fs[GitIgnore].kind = "file"
    /\ stdout = print_success_message(cfg)

====
